---- MODULE Spec2Model ----
(***************************************************************************)
(* SocketChat: the socket.io room relay (SocketService), the pairwise      *)
(* ECDH/AES-GCM message encryption (EncryptionService) and the chat        *)
(* client's event handlers (components/chat.tsx, contexts/socket-context). *)
(*                                                                         *)
(* Strings are sequences of numbers: UTF-16 code units for message text,   *)
(* indices into the base64 alphabet (0..63, 64 for "=") for base64 text.   *)
(***************************************************************************)
EXTENDS Integers, Sequences, FiniteSets, TLC

\* ------------------------------------------------------------------ bounds
MaxTextLen == 2     \* longest plaintext, in UTF-16 code units
MaxKeyGen == 2      \* key pairs one client generates
NumNonces == 2      \* distinct random IVs drawn
MaxEvents == 2      \* events the clients emit to the relay
MaxKeySends == 2    \* exchange-keys events one client emits to one peer
MaxJoins == 1       \* times one client joins a room
MaxSends == 2       \* messages one client sends
MaxChanges == 1     \* edits and deletes made in the room
MaxReacts == 3      \* reactions added or removed in the room
MaxTicks == 10      \* half seconds the clock runs
MaxKeystrokes == 3  \* changes of the input field by one user
windowMs == 3       \* RATE_LIMIT_WINDOW_MS (default 900000), in ticks of the server's clock
maxRequests == 2    \* RATE_LIMIT_MAX_REQUESTS (default 100)
MaxApiTime == 8     \* ticks the server's clock runs
TokenLife == 2      \* 24 * 60 * 60 seconds, in ticks of the server's clock
MaxCalls == 2       \* PUT and DELETE requests in flight at once

\* ------------------------------------------------------- program constants
IvLen == 12         \* new Uint8Array(12); encryptedBuffer.slice(0, 12)

Conn == {"A", "B", "C"}      \* socket ids; a client's userId is its socket id
Null == "null"

Ok(v) == [ok |-> TRUE, val |-> v]
Err == [ok |-> FALSE, val |-> <<>>]

ConnNum(c) == CASE c = "A" -> 1 [] c = "B" -> 2 [] c = "C" -> 3 [] OTHER -> 0

\* --------------------------------------------------------------- encodings
B64Pad == 64

\* btoa over a binary string (one byte per character).
RECURSIVE Btoa(_)
Btoa(bytes) ==
  IF Len(bytes) = 0 THEN <<>>
  ELSE IF Len(bytes) = 1 THEN
    << bytes[1] \div 4, (bytes[1] % 4) * 16, B64Pad, B64Pad >>
  ELSE IF Len(bytes) = 2 THEN
    << bytes[1] \div 4, (bytes[1] % 4) * 16 + bytes[2] \div 16,
       (bytes[2] % 16) * 4, B64Pad >>
  ELSE
    << bytes[1] \div 4, (bytes[1] % 4) * 16 + bytes[2] \div 16,
       (bytes[2] % 16) * 4 + bytes[3] \div 64, bytes[3] % 64 >>
    \o Btoa(SubSeq(bytes, 4, Len(bytes)))

StripPad(s) ==
  IF Len(s) % 4 = 0 /\ Len(s) >= 2 /\ s[Len(s)] = B64Pad
  THEN IF s[Len(s) - 1] = B64Pad THEN SubSeq(s, 1, Len(s) - 2)
       ELSE SubSeq(s, 1, Len(s) - 1)
  ELSE s

RECURSIVE AtobBody(_)
AtobBody(s) ==
  IF Len(s) < 2 THEN <<>>
  ELSE IF Len(s) = 2 THEN << s[1] * 4 + s[2] \div 16 >>
  ELSE IF Len(s) = 3 THEN
    << s[1] * 4 + s[2] \div 16, (s[2] % 16) * 16 + s[3] \div 4 >>
  ELSE
    << s[1] * 4 + s[2] \div 16, (s[2] % 16) * 16 + s[3] \div 4,
       (s[3] % 4) * 64 + s[4] >>
    \o AtobBody(SubSeq(s, 5, Len(s)))

\* atob (forgiving-base64 decode): throws InvalidCharacterError on a character
\* outside the alphabet or a length of 1 mod 4.
Atob(s) ==
  LET t == StripPad(s) IN
  IF Len(t) % 4 = 1 \/ \E i \in 1..Len(t) : t[i] \notin 0..63
  THEN Err ELSE Ok(AtobBody(t))

\* arrayBufferToBase64 / base64ToArrayBuffer: String.fromCharCode per byte,
\* then btoa; atob, then charCodeAt per character.
arrayBufferToBase64(buffer) == Btoa(buffer)
base64ToArrayBuffer(base64) == Atob(base64)

IsHi(u) == u >= 55296 /\ u <= 56319
IsLo(u) == u >= 56320 /\ u <= 57343
ReplacementChar == 65533
SweepPeriod == 1000   \* setInterval(..., 1000) of the typing sweep
TypingTtl == 3000     \* now - user.timestamp < 3000
TypingPause == 3000   \* setTimeout(() => setIsTyping(false), 3000)

Utf8(cp) ==
  IF cp < 128 THEN << cp >>
  ELSE IF cp < 2048 THEN << 192 + cp \div 64, 128 + (cp % 64) >>
  ELSE IF cp < 65536 THEN
    << 224 + cp \div 4096, 128 + ((cp \div 64) % 64), 128 + (cp % 64) >>
  ELSE << 240 + cp \div 262144, 128 + ((cp \div 4096) % 64),
          128 + ((cp \div 64) % 64), 128 + (cp % 64) >>

\* TextEncoder.encode: the string is converted to scalar values first, so an
\* unpaired surrogate is encoded as U+FFFD.
RECURSIVE TextEncode(_)
TextEncode(str) ==
  IF Len(str) = 0 THEN <<>>
  ELSE IF IsHi(str[1]) /\ Len(str) >= 2 /\ IsLo(str[2]) THEN
    Utf8(65536 + (str[1] - 55296) * 1024 + (str[2] - 56320))
    \o TextEncode(SubSeq(str, 3, Len(str)))
  ELSE IF IsHi(str[1]) \/ IsLo(str[1]) THEN
    Utf8(ReplacementChar) \o TextEncode(Tail(str))
  ELSE Utf8(str[1]) \o TextEncode(Tail(str))

IsCont(b) == b >= 128 /\ b <= 191

CodeUnits(cp) ==
  IF cp < 65536 THEN << cp >>
  ELSE << 55296 + (cp - 65536) \div 1024, 56320 + ((cp - 65536) % 1024) >>

\* TextDecoder.decode (utf-8, not fatal): a malformed sequence decodes to U+FFFD.
RECURSIVE TextDecode(_)
TextDecode(b) ==
  IF Len(b) = 0 THEN <<>>
  ELSE IF b[1] < 128 THEN << b[1] >> \o TextDecode(Tail(b))
  ELSE IF b[1] >= 194 /\ b[1] <= 223 /\ Len(b) >= 2 /\ IsCont(b[2]) THEN
    CodeUnits((b[1] - 192) * 64 + (b[2] - 128))
    \o TextDecode(SubSeq(b, 3, Len(b)))
  ELSE IF b[1] >= 224 /\ b[1] <= 239 /\ Len(b) >= 3 /\ IsCont(b[2]) /\ IsCont(b[3]) THEN
    CodeUnits((b[1] - 224) * 4096 + (b[2] - 128) * 64 + (b[3] - 128))
    \o TextDecode(SubSeq(b, 4, Len(b)))
  ELSE IF b[1] >= 240 /\ b[1] <= 244 /\ Len(b) >= 4
          /\ IsCont(b[2]) /\ IsCont(b[3]) /\ IsCont(b[4]) THEN
    CodeUnits((b[1] - 240) * 262144 + (b[2] - 128) * 4096
              + (b[3] - 128) * 64 + (b[4] - 128))
    \o TextDecode(SubSeq(b, 5, Len(b)))
  ELSE << ReplacementChar >> \o TextDecode(Tail(b))

\* ------------------------------------------------------------------ state
VARIABLES
  connected,        \* server: the sockets that are connected
  rooms,            \* server: room id -> sockets joined (socket.io adapter)
  toServer,         \* per socket: events the client emitted, not yet handled
  inbox,            \* per socket: events the server emitted to it, not yet dispatched
  userId,           \* socket-context: userId (socketInstance.id), Null before connect
  currentRoom,      \* socket-context: currentRoom
  selectedRoom,     \* chat: selectedRoom
  recipientId,      \* chat: recipientId
  messages,         \* chat: messages
  editingMessageId, \* chat: editingMessageId
  running,          \* per client: async handler invocations waiting on an await
  keyPair,          \* EncryptionService.keyPair (0 = null, else the key's number)
  peerPublicKeys,   \* EncryptionService.peerPublicKeys
  keyGens,          \* per client: key pairs generated so far (names the next one)
  keySent,          \* history: exchange-keys events client a emitted to peer b
  nextSeq,          \* history: number of the next emitted event / sent message
  seen,             \* history: per client, which message events its handlers were given
  userOps,          \* history: per client, the user actions taken (bounds them)
  trip,             \* result of the last encrypt-then-decrypt round trip
  now,              \* Date.now(), in milliseconds
  typingUsers,      \* chat: typingUsers
  isTyping,         \* chat: isTyping
  typingTimeout,    \* chat: when the pending typing timeout is due (0: none pending)
  sweepAt,          \* per client: when its typing sweep (setInterval) runs next
  typedAt,          \* history: per client, when it emitted user-typing
  requests,         \* rate limiter: client ip -> { count, reset } (the module's Map)
  apiNow,           \* the server's clock
  rateResult,       \* what the last rateLimit call returned
  admitted,         \* per client ip: when, in the last window, rateLimit let a request in
  issued,           \* the tokens generateJWT has returned
  authResult,       \* what the last verifyJWT call returned
  table,            \* the messages table: id -> row
  calls,            \* PUT and DELETE handlers waiting on the database
  replies           \* the response of the handler that answered last

netVars == << connected, rooms, toServer, inbox >>
chatVars == << userId, currentRoom, selectedRoom, recipientId, messages,
               editingMessageId, running >>
cryptoVars == << keyPair, peerPublicKeys, keyGens >>
histVars == << keySent, nextSeq, seen, userOps >>
typingVars == << now, typingUsers, isTyping, typingTimeout, sweepAt, typedAt >>
apiVars == << requests, apiNow, rateResult, admitted, issued, authResult, table, calls,
             replies >>
vars == << netVars, chatVars, cryptoVars, histVars, trip, typingVars, apiVars >>

\* ------------------------------------------------------ EncryptionService
NoKey == <<>>

\* The private scalar of the key pair number gen generated by owner.
KeyNum(owner, gen) == (ConnNum(owner) - 1) * (MaxKeyGen + 1) + gen

\* exportKey("raw", publicKey): the uncompressed point, 0x04 then the
\* coordinates (here the point is named by the scalar that made it).
exportKey(owner, gen) == << 4, KeyNum(owner, gen) >>

\* importKey("raw", buffer, ECDH P-256): DataError unless the buffer is a point.
importKey(buffer) ==
  IF Len(buffer) = 2 /\ buffer[1] = 4 /\ buffer[2] >= 1
  THEN Ok(buffer) ELSE Err

\* deriveBits(ECDH): the same bits from (a's private, b's public) as from
\* (b's private, a's public), and different bits for every other pair.
deriveBitsSwapped(privateKey, publicKey) == privateKey
deriveBitsGroup(privateKey, publicKey) == publicKey[1]
deriveBits(privateKey, publicKey) ==
  LET a == privateKey
      b == publicKey[2]
  IN IF a <= b THEN a * 16 + b ELSE b * 16 + a

RECURSIVE SumBytes(_)
SumBytes(data) == IF Len(data) = 0 THEN 0 ELSE data[1] + SumBytes(Tail(data))

\* AES-GCM: a keystream cipher and a tag bound to key, iv and plaintext.
AuthTag(key, iv, data) == << key, (SumBytes(data) + SumBytes(iv)) % 256 >>

AesGcmEncrypt(key, iv, data) ==
  [ i \in 1..Len(data) |-> (data[i] + key + iv[1]) % 256 ] \o AuthTag(key, iv, data)

AesGcmDecrypt(key, iv, data) ==
  IF Len(iv) = 0 \/ Len(data) < Len(AuthTag(key, iv, <<>>)) THEN Err
  ELSE LET n == Len(data) - Len(AuthTag(key, iv, <<>>))
           plain == [ i \in 1..n |-> (data[i] + 512 - key - iv[1]) % 256 ]
       IN IF SubSeq(data, n + 1, Len(data)) = AuthTag(key, iv, plain)
          THEN Ok(plain) ELSE Err

Nonces == 1..NumNonces
RandomIv(n) == [ i \in 1..IvLen |-> n ]

\* The IV drawn for the k-th encryption of a client.
FreshIv(k) == RandomIv(1 + (k % NumNonces))

PeerKey(peers, id) == IF id \in DOMAIN peers THEN peers[id] ELSE NoKey

\* getPublicKeyAsString once this.keyPair is set.
PublicKeyString(owner, gen) == arrayBufferToBase64(exportKey(owner, gen))

\* addPeerPublicKey(userId, publicKeyString): the map after the call; a key
\* that does not decode or import throws and leaves the map as it was.
addPeerPublicKey(peers, id, publicKeyString) ==
  LET buf == base64ToArrayBuffer(publicKeyString)
      key == IF buf.ok THEN importKey(buf.val) ELSE Err
  IN IF key.ok /\ id \in DOMAIN peers THEN [peers EXCEPT ![id] = key.val] ELSE peers

\* encryptMessage(message, recipientId) of client me, with iv the random IV.
encryptMessage(me, kp, peers, message, to, iv) ==
  LET recipientPublicKey == PeerKey(peers, to) IN
  IF recipientPublicKey = NoKey \/ kp = 0 THEN Err
  ELSE LET sharedSecret == deriveBits(KeyNum(me, kp), recipientPublicKey)
           encryptedBuffer == AesGcmEncrypt(sharedSecret, iv, TextEncode(message))
       IN Ok(arrayBufferToBase64(iv \o encryptedBuffer))

\* decryptMessage(encryptedMessage, senderId) of client me.
decryptMessage(me, kp, peers, encryptedMessage, senderId) ==
  LET senderPublicKey == PeerKey(peers, senderId) IN
  IF senderPublicKey = NoKey \/ kp = 0 THEN Err
  ELSE LET sharedSecret == deriveBits(KeyNum(me, kp), senderPublicKey)
           encryptedBuffer == base64ToArrayBuffer(encryptedMessage)
       IN IF ~encryptedBuffer.ok THEN Err
          ELSE LET buf == encryptedBuffer.val
                   iv == SubSeq(buf, 1, IF Len(buf) < IvLen THEN Len(buf) ELSE IvLen)
                   data == SubSeq(buf, Len(iv) + 1, Len(buf))
                   decryptedBuffer == AesGcmDecrypt(sharedSecret, iv, data)
               IN IF decryptedBuffer.ok THEN Ok(TextDecode(decryptedBuffer.val))
                  ELSE Err

\* ------------------------------------------------- round trip of the cipher
RoomNames == {"r1", "r2"}
RoomId == RoomNames \cup Conn     \* a socket is also in the room named by its id

Chars == {97, 55357, 56832}       \* "a", a high surrogate, a low surrogate
Plaintexts == UNION { [1..n -> Chars] : n \in 0..MaxTextLen }

NoOps == [join |-> 0, send |-> 0, edit |-> 0, delete |-> 0, react |-> 0, type |-> 0]

NoTrip == [from |-> Null, to |-> Null, plain |-> <<>>, exchanged |-> FALSE,
           result |-> Err]

\* Nobody is composing; each client's sweep has a period to go.
NoTyping ==
  /\ now = 0
  /\ typingUsers = [c \in Conn |-> <<>>]
  /\ isTyping = [c \in Conn |-> FALSE]
  /\ typingTimeout = [c \in Conn |-> 0]
  /\ sweepAt = [c \in Conn |-> SweepPeriod]
  /\ typedAt = [c \in Conn |-> {}]

\* ------------------------------------------------------- the HTTP API's state
\* request.headers.get('x-forwarded-for') || get('x-real-ip') || 'anonymous'
Ips == { "ip1", "anonymous" }
NoEntry == [count |-> 0, reset |-> 0]        \* requests.get(ip) === undefined
NoRateResult == [ip |-> Null, success |-> FALSE, limit |-> 0, remaining |-> 0,
                 reset |-> 0]

\* AuthResult of verifyJWT
NoAuth == [success |-> FALSE, userId |-> <<>>, walletAddress |-> <<>>, error |-> Null]

\* The users of the API and the rows of the messages table.
Users == { "u1", "u2" }
MsgIds == { "m1", "m2" }
Row(sender, content) ==
  [sender_id |-> sender, encrypted_content |-> content, edited_at |-> 0,
   is_deleted |-> FALSE]

\* No request has been made; the table holds a message of each user.
NoApi ==
  /\ requests = [ip \in Ips |-> NoEntry]
  /\ apiNow = 0
  /\ rateResult = NoRateResult
  /\ admitted = [ip \in Ips |-> <<>>]
  /\ issued = {}
  /\ authResult = [result |-> NoAuth, sent |-> Null, at |-> 0]
  /\ table = [id \in MsgIds |-> IF id = "m1" THEN Row("u1", "c0") ELSE Row("u2", "c0")]
  /\ calls = {}
  /\ replies = {}

InitState ==
  /\ connected = {}
  /\ rooms = [r \in RoomId |-> {}]
  /\ toServer = [c \in Conn |-> <<>>]
  /\ inbox = [c \in Conn |-> <<>>]
  /\ userId = [c \in Conn |-> Null]
  /\ currentRoom = [c \in Conn |-> Null]
  /\ selectedRoom = [c \in Conn |-> Null]
  /\ recipientId = [c \in Conn |-> Null]
  /\ messages = [c \in Conn |-> <<>>]
  /\ editingMessageId = [c \in Conn |-> 0]
  /\ running = [c \in Conn |-> {}]
  /\ keyPair = [c \in Conn |-> 0]
  /\ peerPublicKeys = [c \in Conn |-> [p \in Conn |-> NoKey]]
  /\ keyGens = [c \in Conn |-> 0]
  /\ keySent = [c \in Conn |-> [p \in Conn |-> 0]]
  /\ nextSeq = 1
  /\ seen = [c \in Conn |-> {}]
  /\ userOps = [c \in Conn |-> NoOps]
  /\ trip = NoTrip
  /\ NoTyping
  /\ NoApi

\* generateKeyPair: this.keyPair = a fresh key pair.
NewKeyPair(c) ==
  /\ keyGens[c] < MaxKeyGen
  /\ keyGens' = [keyGens EXCEPT ![c] = @ + 1]
  /\ keyPair' = [keyPair EXCEPT ![c] = keyGens[c] + 1]

CryptoConn == {"A", "B"}

generateKeyPair(c) ==
  /\ NewKeyPair(c)
  /\ UNCHANGED << peerPublicKeys, trip, typingVars, apiVars >>

\* c imports the public key string p exports now.
importPeerKey(c, p) ==
  /\ keyPair[p] # 0
  /\ peerPublicKeys' = [peerPublicKeys EXCEPT ![c] =
        addPeerPublicKey(@, p, PublicKeyString(p, keyPair[p]))]
  /\ UNCHANGED << keyPair, keyGens, trip, typingVars, apiVars >>

HoldsCurrentKey(c, p) ==
  /\ keyPair[p] # 0
  /\ peerPublicKeys[c][p] = exportKey(p, keyPair[p])

Exchanged(a, b) ==
  /\ keyPair[a] # 0 /\ keyPair[b] # 0
  /\ HoldsCurrentKey(a, b) /\ HoldsCurrentKey(b, a)

\* b.decryptMessage(a.encryptMessage(P, b), a)
RoundTrip(a, b, P, n) ==
  LET envelope == encryptMessage(a, keyPair[a], peerPublicKeys[a], P, b, RandomIv(n))
      result == IF envelope.ok
                THEN decryptMessage(b, keyPair[b], peerPublicKeys[b], envelope.val, a)
                ELSE Err
  IN /\ trip' = [from |-> a, to |-> b, plain |-> P, exchanged |-> Exchanged(a, b),
                 result |-> result]
     /\ UNCHANGED cryptoVars

NextCrypto ==
  /\ \/ \E c \in CryptoConn : generateKeyPair(c)
     \/ \E c \in CryptoConn : \E p \in CryptoConn \ {c} : importPeerKey(c, p)
     \/ \E a \in CryptoConn : \E b \in CryptoConn \ {a} :
          \E P \in Plaintexts : \E n \in Nonces : RoundTrip(a, b, P, n)
  /\ UNCHANGED << netVars, chatVars, histVars, typingVars, apiVars >>

SpecCrypto == InitState /\ [][NextCrypto]_vars

\* No unpaired surrogate: the string is a sequence of Unicode scalar values.
RECURSIVE WellFormed(_)
WellFormed(str) ==
  IF Len(str) = 0 THEN TRUE
  ELSE IF IsHi(str[1]) THEN Len(str) >= 2 /\ IsLo(str[2])
                            /\ WellFormed(SubSeq(str, 3, Len(str)))
  ELSE ~IsLo(str[1]) /\ WellFormed(Tail(str))

NoMedia == [has |-> FALSE, encryptedData |-> <<>>, type |-> Null, hash |-> <<>>]

\* History carried with an event, read by no handler: its number, the socket
\* that emitted it, the room it was relayed into and the message it is about.
NoTag == [seq |-> 0, from |-> Null, room |-> Null, n |-> 0]

\* One shape for every event; a field an event does not carry keeps its default.
Event0 ==
  [type |-> Null, roomId |-> Null, id |-> 0, encryptedMessage |-> <<>>,
   sender |-> Null, userId |-> Null, timestamp |-> 0, replyTo |-> 0,
   media |-> NoMedia, editedAt |-> 0, emoji |-> Null, remove |-> FALSE,
   publicKey |-> <<>>, recipientId |-> Null, g |-> NoTag]

RoomScoped == {"send-message", "edit-message", "delete-message",
               "message-reaction", "message-read", "user-typing"}

Members(r) == IF r \in DOMAIN rooms THEN rooms[r] ELSE {}

\* socket.to(room): every socket joined to room except socket itself.
socketToWithSender(socket, room, members) == members
socketTo(socket, room, members) == members \ {socket}

\* .emit(out) to each target: appended to the target's stream, in order.
emitFront(box, targets, out) ==
  [d \in Conn |-> IF d \in targets THEN << out >> \o box[d] ELSE box[d]]
emit(box, targets, out) ==
  [d \in Conn |-> IF d \in targets THEN Append(box[d], out) ELSE box[d]]

\* What each socket.on(...) handler of initIO emits for the event data.
Relayed(socket, data) ==
  LET t == data.type
      tag == [data.g EXCEPT !.room = IF t = "exchange-keys" THEN data.recipientId
                                     ELSE data.roomId]
  IN CASE t = "join-room" ->
            [Event0 EXCEPT !.type = "user-connected", !.userId = data.userId, !.g = tag]
       [] t = "send-message" ->
            [Event0 EXCEPT !.type = "receive-message", !.id = data.id,
                           !.encryptedMessage = data.encryptedMessage,
                           !.sender = data.sender, !.timestamp = data.timestamp,
                           !.replyTo = data.replyTo, !.media = data.media, !.g = tag]
       [] t = "edit-message" ->
            [Event0 EXCEPT !.type = "message-edit", !.id = data.id,
                           !.encryptedMessage = data.encryptedMessage,
                           !.sender = socket, !.editedAt = data.editedAt, !.g = tag]
       [] t = "delete-message" ->
            [Event0 EXCEPT !.type = "message-delete", !.id = data.id,
                           !.sender = socket, !.g = tag]
       [] t = "message-reaction" ->
            [Event0 EXCEPT !.type = "message-reaction", !.id = data.id,
                           !.userId = socket, !.emoji = data.emoji,
                           !.remove = data.remove, !.g = tag]
       [] t = "message-read" ->
            [Event0 EXCEPT !.type = "message-read", !.id = data.id,
                           !.userId = data.userId, !.g = tag]
       [] t = "user-typing" ->
            [Event0 EXCEPT !.type = "user-typing", !.userId = data.userId,
                           !.roomId = data.roomId, !.g = tag]
       [] OTHER ->
            [Event0 EXCEPT !.type = "exchange-keys", !.userId = data.userId,
                           !.publicKey = data.publicKey, !.g = tag]

\* The room an event is relayed into.
TargetRoom(data) ==
  IF data.type = "exchange-keys" THEN data.recipientId ELSE data.roomId

\* socket.join(roomId) of the join-room handler.
JoinedRooms(socket, data) ==
  IF data.type = "join-room" /\ data.roomId \in DOMAIN rooms
  THEN [rooms EXCEPT ![data.roomId] = @ \cup {socket}]
  ELSE rooms

\* The server runs the handler of the next event socket sent.
ServerHandle(socket) ==
  /\ socket \in connected
  /\ toServer[socket] # <<>>
  /\ LET data == Head(toServer[socket])
         joined == JoinedRooms(socket, data)
         room == TargetRoom(data)
         members == IF room \in DOMAIN joined THEN joined[room] ELSE {}
     IN /\ rooms' = joined
        /\ inbox' = emit(inbox, socketTo(socket, room, members), Relayed(socket, data))
  /\ toServer' = [toServer EXCEPT ![socket] = Tail(@)]
  /\ UNCHANGED << connected, chatVars, cryptoVars, histVars, trip, typingVars, apiVars >>

\* The client's socket.emit: the event, numbered, joins the socket's stream.
Sent(c, data, n) ==
  Append(toServer[c], [data EXCEPT !.g = [seq |-> nextSeq, from |-> c,
                                           room |-> Null, n |-> n]])

\* socket.emit of a handler of the client.
Emitted(c, data, n) ==
  Append(toServer[c], [data EXCEPT !.g = [NoTag EXCEPT !.from = c, !.n = n]])

\* A socket disconnects: socket.io takes it out of every room; the handler
\* only logs. What it had sent and not yet had handled is lost.
leaveNothing(socket) == rooms
leaveAll(socket) == [r \in RoomId |-> rooms[r] \ {socket}]

Disconnect(socket) ==
  /\ socket \in connected
  /\ connected' = connected \ {socket}
  /\ rooms' = leaveAll(socket)
  /\ toServer' = [toServer EXCEPT ![socket] = <<>>]
  /\ UNCHANGED << inbox, chatVars, cryptoVars, histVars, trip, typingVars, apiVars >>

\* ------------------------------------------------------------ async tasks
\* An async handler that is waiting on an await: its kind, the await it is at,
\* the event it handles, what its closure captured and what it has computed.
Task0 ==
  [kind |-> Null, pc |-> Null, ev |-> Event0, userId |-> Null, room |-> Null,
   to |-> Null, text |-> <<>>, out |-> Err, media |-> NoMedia, verified |-> FALSE,
   n |-> 0]

\* socketInstance.on("connect"): setIsConnected, setUserId(socketInstance.id),
\* await encryptionService.generateKeyPair(). The server side of the connection
\* puts the socket in the room named by its id.
Connect(c) ==
  /\ userId[c] = Null
  /\ connected' = connected \cup {c}
  /\ rooms' = [rooms EXCEPT ![c] = {c}]
  /\ userId' = [userId EXCEPT ![c] = c]
  /\ running' = [running EXCEPT ![c] =
        @ \cup {[Task0 EXCEPT !.kind = "connect", !.pc = "generateKey"]}]
  /\ UNCHANGED << toServer, inbox, currentRoom, selectedRoom, recipientId,
                  messages, editingMessageId, cryptoVars, histVars, trip, typingVars, apiVars >>

\* ------------------------------------------------------- the relay alone
\* Any connected socket may emit any event of the vocabulary, naming any room.
SampleEvent(c, t, r) ==
  [Event0 EXCEPT !.type = t, !.roomId = r, !.id = 1, !.sender = c, !.userId = c,
                 !.recipientId = IF t = "exchange-keys" THEN r ELSE Null]

EmitAny(c, t, r) ==
  /\ c \in connected
  /\ nextSeq <= MaxEvents
  /\ toServer' = [toServer EXCEPT ![c] = Sent(c, SampleEvent(c, t, r), 0)]
  /\ nextSeq' = nextSeq + 1
  /\ UNCHANGED << connected, rooms, inbox, chatVars, cryptoVars, keySent,
                  seen, userOps, trip, typingVars, apiVars >>

\* Three sockets are connected and some of them have joined r1; what the relay
\* emitted for that has been dispatched.
InitRouter ==
  /\ connected = Conn
  /\ \E m \in SUBSET Conn :
       rooms = [r \in RoomId |-> IF r \in Conn THEN {r}
                                ELSE IF r = "r1" THEN m ELSE {}]
  /\ toServer = [c \in Conn |-> <<>>]
  /\ inbox = [c \in Conn |-> <<>>]
  /\ userId = [c \in Conn |-> c]
  /\ currentRoom = [c \in Conn |-> Null]
  /\ selectedRoom = [c \in Conn |-> Null]
  /\ recipientId = [c \in Conn |-> Null]
  /\ messages = [c \in Conn |-> <<>>]
  /\ editingMessageId = [c \in Conn |-> 0]
  /\ running = [c \in Conn |-> {}]
  /\ keyPair = [c \in Conn |-> 1]
  /\ peerPublicKeys = [c \in Conn |-> [p \in Conn |-> NoKey]]
  /\ keyGens = [c \in Conn |-> 1]
  /\ keySent = [c \in Conn |-> [p \in Conn |-> 0]]
  /\ nextSeq = 1
  /\ seen = [c \in Conn |-> {}]
  /\ userOps = [c \in Conn |-> NoOps]
  /\ trip = NoTrip
  /\ NoTyping
  /\ NoApi

\* A and B publish; C joins, listens and leaves.
Publishers == {"A", "B"}

NextRouter ==
  \/ \E c \in Conn : \E r \in RoomNames : EmitAny(c, "join-room", r)
  \/ \E c \in Publishers : \E t \in RoomScoped : \E r \in RoomNames :
       EmitAny(c, t, r)
  \/ \E c \in Publishers : \E r \in Conn : EmitAny(c, "exchange-keys", r)
  \/ \E c \in Conn : ServerHandle(c)
  \/ \E c \in Conn : Disconnect(c)

SpecRouter == InitRouter /\ [][NextRouter]_vars

\* The step is the server handling the next event of socket c.
ServerHandled(c) ==
  /\ c \in connected /\ c \in connected'
  /\ toServer[c] # <<>>
  /\ toServer'[c] = Tail(toServer[c])

Copies(box, s) == Cardinality({ i \in DOMAIN box : box[i].g.seq = s })

EverSeq == 1..(MaxEvents + 1)

\* C1: a room-scoped event that socket A publishes to room R reaches every
\* other socket joined to R at that moment exactly once and never A itself;
\* nothing else ever adds a copy of it to any socket's stream.
C1_FanOutExactlyOnce ==
  [][ /\ \A c \in Conn :
           (ServerHandled(c) /\ Head(toServer[c]).type \in RoomScoped) =>
             LET data == Head(toServer[c]) IN
             \A d \in Conn :
               Copies(inbox'[d], data.g.seq) =
                 IF d \in Members(data.roomId) /\ d # c THEN 1 ELSE 0
      /\ \A d \in Conn : \A s \in EverSeq :
           Copies(inbox'[d], s) # Copies(inbox[d], s) =>
             \E c \in Conn : ServerHandled(c) /\ Head(toServer[c]).g.seq = s
    ]_vars

C1_Witness ==
  /\ rooms["r1"] = Conn
  /\ \E i \in DOMAIN inbox["B"] : \E j \in DOMAIN inbox["C"] :
       /\ inbox["B"][i].g.from = "A" /\ inbox["B"][i].g.room = "r1"
       /\ inbox["B"][i].type = "receive-message"
       /\ inbox["C"][j].g.seq = inbox["B"][i].g.seq
  /\ \A i \in DOMAIN inbox["A"] : inbox["A"][i].g.from # "A"

\* C5: a disconnected socket is a member of no room, and nothing is delivered
\* to it from then on.
C5_DisconnectedGetsNothing ==
  /\ [](\A b \in Conn : b \notin connected => \A r \in RoomId : b \notin rooms[r])
  /\ [][\A b \in Conn : b \notin connected => inbox'[b] = inbox[b]]_vars

\* B received an event A published to r1, then disconnected; a later event of
\* A to r1 reached C and not B.
C5_Witness ==
  /\ "B" \notin connected
  /\ \E i \in DOMAIN inbox["B"] : \E j \in DOMAIN inbox["C"] :
       /\ inbox["B"][i].g.from = "A" /\ inbox["B"][i].g.room = "r1"
       /\ inbox["C"][j].g.from = "A" /\ inbox["C"][j].g.room = "r1"
       /\ inbox["C"][j].g.seq > inbox["B"][i].g.seq
       /\ Copies(inbox["B"], inbox["C"][j].g.seq) = 0

Spawn(c, task) == [running EXCEPT ![c] = @ \cup {task}]
Replace(c, old, new) == [running EXCEPT ![c] = (@ \ {old}) \cup {new}]
Finish(c, task) == [running EXCEPT ![c] = @ \ {task}]

\* getPublicKeyAsString up to its first await: generateKeyPair when there is no
\* key pair, else exportKey of the key pair there is.
AwaitPublicKey(c, task) ==
  IF keyPair[c] = 0
  THEN [task EXCEPT !.pc = "generateKey"]
  ELSE [task EXCEPT !.pc = "exportKey", !.text = PublicKeyString(c, keyPair[c])]

\* handleJoinRoom / handleRoomSelect: joinRoom(room) emits join-room and sets
\* currentRoom when there is a userId; selectedRoom is set in any case.
JoinRoom(c, room) ==
  /\ userOps[c].join < MaxJoins
  /\ userOps' = [userOps EXCEPT ![c].join = @ + 1]
  /\ selectedRoom' = [selectedRoom EXCEPT ![c] = room]
  /\ IF userId[c] # Null
     THEN /\ currentRoom' = [currentRoom EXCEPT ![c] = room]
          /\ nextSeq' = nextSeq
          /\ toServer' = IF c \in connected
                THEN [toServer EXCEPT ![c] =
                        Emitted(c, [Event0 EXCEPT !.type = "join-room", !.roomId = room,
                                               !.userId = userId[c]], 0)]
                ELSE toServer
     ELSE UNCHANGED << currentRoom, nextSeq, toServer >>
  /\ UNCHANGED << connected, rooms, inbox, userId, recipientId, messages,
                  editingMessageId, running, cryptoVars, keySent, seen, trip, typingVars, apiVars >>

\* A generateKey the client awaits resolves: this.keyPair is assigned. The
\* connect handler is done; getPublicKeyAsString goes on to export that key.
GenerateKeyDone(c, task) ==
  /\ task \in running[c]
  /\ task.pc = "generateKey"
  /\ NewKeyPair(c)
  /\ running' = IF task.kind = "connect" THEN Finish(c, task)
                ELSE Replace(c, task, [task EXCEPT !.pc = "exportKey",
                        !.text = PublicKeyString(c, keyGens[c] + 1)])
  /\ UNCHANGED << netVars, userId, currentRoom, selectedRoom, recipientId, messages,
                  editingMessageId, peerPublicKeys, histVars, trip, typingVars, apiVars >>

\* socket.on("user-connected", handleUserConnected)
handleUserConnected(c) ==
  /\ inbox[c] # <<>>
  /\ Head(inbox[c]).type = "user-connected"
  /\ inbox' = [inbox EXCEPT ![c] = Tail(@)]
  /\ running' = IF userId[c] # Null
       THEN Spawn(c, AwaitPublicKey(c, [Task0 EXCEPT !.kind = "userConnected",
               !.userId = userId[c], !.to = Head(inbox[c]).userId]))
       ELSE running
  /\ UNCHANGED << connected, rooms, toServer, userId, currentRoom, selectedRoom,
                  recipientId, messages, editingMessageId, cryptoVars, histVars, trip, typingVars, apiVars >>

\* socket.on("exchange-keys", handleKeyExchange), up to the await of importKey.
handleKeyExchange(c) ==
  /\ inbox[c] # <<>>
  /\ Head(inbox[c]).type = "exchange-keys"
  /\ inbox' = [inbox EXCEPT ![c] = Tail(@)]
  /\ running' = IF base64ToArrayBuffer(Head(inbox[c]).publicKey).ok
       THEN Spawn(c, [Task0 EXCEPT !.kind = "keyExchange", !.pc = "importKey",
                                   !.ev = Head(inbox[c]), !.userId = userId[c],
                                   !.to = Head(inbox[c]).userId])
       ELSE running
  /\ UNCHANGED << connected, rooms, toServer, userId, currentRoom, selectedRoom,
                  recipientId, messages, editingMessageId, cryptoVars, histVars, trip, typingVars, apiVars >>

\* importKey resolves: peerPublicKeys.set(userId, publicKey); then "send back
\* your public key if you haven't already": sent whenever the key is another's.
replyNever(me, from) == FALSE
replyToKey(me, from) == me # Null /\ from # me

ImportKeyDone(c, task) ==
  /\ task \in running[c]
  /\ task.pc = "importKey"
  /\ peerPublicKeys' = [peerPublicKeys EXCEPT ![c] =
        addPeerPublicKey(@, task.ev.userId, task.ev.publicKey)]
  /\ running' = IF importKey(base64ToArrayBuffer(task.ev.publicKey).val).ok
                   /\ replyToKey(task.userId, task.ev.userId)
                THEN Replace(c, task, AwaitPublicKey(c, task))
                ELSE Finish(c, task)
  /\ UNCHANGED << netVars, userId, currentRoom, selectedRoom, recipientId, messages,
                  editingMessageId, keyPair, keyGens, histVars, trip, typingVars, apiVars >>

\* exportKey resolves: socket.emit("exchange-keys", {userId, publicKey, recipientId}).
ExportKeyDone(c, task) ==
  /\ task \in running[c]
  /\ task.pc = "exportKey"
  /\ keySent[c][task.to] < MaxKeySends
  /\ keySent' = [keySent EXCEPT ![c][task.to] = @ + 1]
  /\ nextSeq' = nextSeq
  /\ toServer' = IF c \in connected
        THEN [toServer EXCEPT ![c] =
                Emitted(c, [Event0 EXCEPT !.type = "exchange-keys", !.userId = task.userId,
                                       !.publicKey = task.text, !.recipientId = task.to], 0)]
        ELSE toServer
  /\ running' = Finish(c, task)
  /\ UNCHANGED << connected, rooms, inbox, userId, currentRoom, selectedRoom,
                  recipientId, messages, editingMessageId, cryptoVars, seen, userOps, trip, typingVars, apiVars >>

KxConn == {"A", "B"}

NextKx ==
  \/ \E c \in KxConn : Connect(c)
  \/ \E c \in KxConn : JoinRoom(c, "r1")
  \/ \E c \in KxConn : ServerHandle(c)
  \/ \E c \in KxConn : handleUserConnected(c)
  \/ \E c \in KxConn : handleKeyExchange(c)
  \/ \E c \in KxConn : \E task \in running[c] : GenerateKeyDone(c, task)
  \/ \E c \in KxConn : \E task \in running[c] : ImportKeyDone(c, task)
  \/ \E c \in KxConn : \E task \in running[c] : ExportKeyDone(c, task)

SpecKx == InitState /\ [][NextKx]_vars

\* The relay and the clients' handlers take every step they can; the users
\* connect and join when they choose.
KxSystemStep ==
  \/ \E c \in KxConn : ServerHandle(c)
  \/ \E c \in KxConn : handleUserConnected(c)
  \/ \E c \in KxConn : handleKeyExchange(c)
  \/ \E c \in KxConn : \E task \in running[c] : GenerateKeyDone(c, task)
  \/ \E c \in KxConn : \E task \in running[c] : ImportKeyDone(c, task)
  \/ \E c \in KxConn : \E task \in running[c] : ExportKeyDone(c, task)

SpecKxFair == SpecKx /\ WF_vars(KxSystemStep)

\* C3 as stated: a client sends its public key to one peer at most once.
C3_KeySentAtMostOnce ==
  \A a \in Conn : \A b \in Conn : keySent[a][b] <= 1

\* a holds a public key that b generated.
HoldsKeyOf(a, b) ==
  \E gen \in 1..keyGens[b] : peerPublicKeys[a][b] = exportKey(b, gen)

\* C4: once A and B are both joined to a room, then with the relay and the
\* handlers taking their steps, A comes to hold B's public key and B A's.
C4_JoinLeadsToExchange ==
  ("A" \in rooms["r1"] /\ "B" \in rooms["r1"])
    ~> (HoldsKeyOf("A", "B") /\ HoldsKeyOf("B", "A"))

C4_Witness ==
  /\ "A" \in rooms["r1"] /\ "B" \in rooms["r1"]
  /\ HoldsKeyOf("A", "B") /\ HoldsKeyOf("B", "A")

\* ---------------------------------------------------------------- messages
\* MediaEncryptionService (src/unnamed/part_001)
IdChars(id) == IF id \in Conn THEN << 64 + ConnNum(id) >> ELSE <<>>

encryptMedia(mediaDataUrl, to) == Btoa(mediaDataUrl \o IdChars(to))

decryptMediaWhole(encryptedMedia, senderId) == Atob(encryptedMedia)
decryptMedia(encryptedMedia, senderId) ==
  LET decodedData == Atob(encryptedMedia) IN
  IF ~decodedData.ok THEN Err
  ELSE LET keep == Len(decodedData.val) - Len(IdChars(senderId))
       IN Ok(SubSeq(decodedData.val, 1, IF keep < 0 THEN 0 ELSE keep))

\* SHA-256 as hex: one digest per input, a different one for a different input.
calculateHash(data) == << Len(data) >> \o [ i \in 1..Len(data) |-> (data[i] + i) % 256 ]

\* mediaVerified = calculatedHash === data.media.hash
verifiedAlways(decryptedMedia, hash) == TRUE
mediaVerified(decryptedMedia, hash) == calculateHash(decryptedMedia) = hash

NoAttachment == [has |-> FALSE, type |-> Null, data |-> <<>>, hash |-> <<>>,
                 verified |-> FALSE]

\* An entry of the messages list (interface Message); n, read by no handler,
\* names the send it stems from.
Message0 ==
  [id |-> 0, text |-> <<>>, sender |-> Null, timestamp |-> 0, isDecrypted |-> FALSE,
   editedAt |-> 0, reactions |-> <<>>, media |-> NoAttachment, replyTo |-> 0,
   isDeleted |-> FALSE, readBy |-> {}, n |-> 0]

Undecryptable == << 91, 63, 93 >>   \* "[Encrypted message - unable to decrypt]"

\* `msg_${Date.now()}_${Math.random()...}`: handleSendMessage draws one id for
\* the local entry, sendMessage draws another for the event.
\* The k-th message client c sends.
MsgNum(c, k) == (ConnNum(c) - 1) * MaxSends + k

\* new Date().toISOString()
Now == 1

LocalId(n) == 2 * n - 1
WireId(n) == 2 * n

SendTexts == { << 97 >> }
EditTexts == { << 98 >> }
MediaFiles == { << 100 >> }
NoFile == <<>>

orUnknown(id) == IF id = Null THEN "unknown" ELSE id

\* messages.map((msg) => msg.id === id ? f(msg) : msg)
MapById(list, id, f(_)) ==
  [ i \in DOMAIN list |-> IF list[i].id = id THEN f(list[i]) ELSE list[i] ]

\* sendMessage of socket-context up to the await of encryptMessage; a throw of
\* encryptMessage is caught and logged and nothing is emitted.
AwaitEncrypt(c, task, iv) ==
  LET envelope == encryptMessage(c, keyPair[c], peerPublicKeys[c], task.text,
                                 task.to, iv)
  IN IF task.userId # Null /\ envelope.ok
     THEN {[task EXCEPT !.pc = "encrypt", !.out = envelope]}
     ELSE {}

SentEntry(c, task) ==
  [Message0 EXCEPT !.id = LocalId(task.n), !.text = task.text,
                   !.sender = orUnknown(task.userId), !.timestamp = Now,
                   !.isDecrypted = TRUE, !.readBy = {orUnknown(task.userId)},
                   !.n = task.n,
                   !.media = IF task.media.has
                             THEN [has |-> TRUE, type |-> task.media.type,
                                   data |-> task.media.encryptedData,
                                   hash |-> calculateHash(task.media.encryptedData),
                                   verified |-> TRUE]
                             ELSE NoAttachment]

\* handleSendMessage: a text-only message is appended at once and then sent;
\* with a file the handler first awaits the file, its hash and encryptMedia.
handleSendMessage(c, text, file, iv) ==
  /\ userOps[c].send < MaxSends
  /\ selectedRoom[c] # Null /\ recipientId[c] # Null
  /\ userOps' = [userOps EXCEPT ![c].send = @ + 1]
  /\ nextSeq' = nextSeq
  /\ LET task == [Task0 EXCEPT !.kind = "send", !.text = text,
                    !.n = MsgNum(c, userOps[c].send + 1),
                    !.userId = userId[c], !.room = selectedRoom[c],
                    !.to = recipientId[c],
                    !.media = [NoMedia EXCEPT !.has = file # NoFile,
                                              !.encryptedData = file,
                                              !.type = IF file # NoFile THEN "image" ELSE Null]]
     IN IF file = NoFile
        THEN /\ messages' = [messages EXCEPT ![c] = Append(@, SentEntry(c, task))]
             /\ running' = [running EXCEPT ![c] = @ \cup AwaitEncrypt(c, task, iv)]
        ELSE /\ messages' = messages
             /\ running' = Spawn(c, [task EXCEPT !.pc = "readFile"])
  /\ UNCHANGED << netVars, userId, currentRoom, selectedRoom, recipientId,
                  editingMessageId, cryptoVars, keySent, seen, trip, typingVars, apiVars >>

\* The file is read, hashed and encrypted: the entry is appended with the file
\* marked verified, and sendMessage is called with the encrypted file.
MediaReady(c, task, iv) ==
  /\ task \in running[c]
  /\ task.kind = "send" /\ task.pc = "readFile"
  /\ messages' = [messages EXCEPT ![c] = Append(@, SentEntry(c, task))]
  /\ running' = [running EXCEPT ![c] = (@ \ {task}) \cup
        AwaitEncrypt(c, [task EXCEPT !.media =
            [has |-> TRUE, type |-> task.media.type,
             encryptedData |-> encryptMedia(task.media.encryptedData, task.to),
             hash |-> calculateHash(task.media.encryptedData)]], iv)]
  /\ UNCHANGED << netVars, userId, currentRoom, selectedRoom, recipientId,
                  editingMessageId, cryptoVars, histVars, trip, typingVars, apiVars >>

\* encryptMessage resolves: socket.emit("send-message", messageData).
SendEncryptDone(c, task) ==
  /\ task \in running[c]
  /\ task.kind = "send" /\ task.pc = "encrypt"
  /\ nextSeq' = nextSeq
  /\ toServer' = IF c \in connected
        THEN [toServer EXCEPT ![c] =
               Emitted(c, [Event0 EXCEPT !.type = "send-message", !.id = WireId(task.n),
                          !.roomId = task.room, !.encryptedMessage = task.out.val,
                          !.sender = task.userId, !.timestamp = Now,
                          !.media = task.media], task.n)]
        ELSE toServer
  /\ running' = Finish(c, task)
  /\ UNCHANGED << connected, rooms, inbox, userId, currentRoom, selectedRoom,
                  recipientId, messages, editingMessageId, cryptoVars, keySent,
                  seen, userOps, trip, typingVars, apiVars >>

\* ------------------------------------------------------- receiving messages
\* What the handlers of one client have been handed so far.
\* keyed: a public key of the event's sender was on file when it was handed over.
Handed(c, data) ==
  [seen EXCEPT ![c] = @ \cup {[type |-> data.type, id |-> data.id, from |-> data.g.from,
                               n |-> data.g.n, order |-> Cardinality(@) + 1,
                               keyed |-> PeerKey(peerPublicKeys[c], data.sender) # NoKey,
                               emoji |-> data.emoji, remove |-> data.remove]}]

ReceivedEntry(data, text, isDecrypted) ==
  [Message0 EXCEPT !.id = data.id, !.text = text, !.sender = data.sender,
                   !.timestamp = data.timestamp, !.isDecrypted = isDecrypted,
                   !.replyTo = data.replyTo, !.n = data.g.n]

\* The catch of handleReceiveMessage: a placeholder entry, and a failure drops
\* the event instead.
dropOnFailure(list, data) == list
appendPlaceholder(list, data) ==
  Append(list, [ReceivedEntry(data, Undecryptable, FALSE) EXCEPT !.replyTo = 0])

\* socket.emit("message-read", {messageId, userId, roomId}) with the userId
\* and selectedRoom the handler's closure holds; messageId is the id field.
EmitRead(c, task) ==
  IF task.userId # Null /\ task.room # Null /\ c \in connected
  THEN [toServer EXCEPT ![c] =
          Emitted(c, [Event0 EXCEPT !.type = "message-read", !.id = task.ev.id,
                                 !.userId = task.userId, !.roomId = task.room],
               task.ev.g.n)]
  ELSE toServer

\* socket.on("receive-message", handleReceiveMessage) up to its first await:
\* decryptMessage throws at once without the sender's key, else awaits.
handleReceiveMessage(c) ==
  /\ inbox[c] # <<>>
  /\ Head(inbox[c]).type = "receive-message"
  /\ LET data == Head(inbox[c])
         plain == decryptMessage(c, keyPair[c], peerPublicKeys[c],
                                 data.encryptedMessage, data.sender)
     IN IF PeerKey(peerPublicKeys[c], data.sender) = NoKey \/ keyPair[c] = 0
        THEN /\ messages' = [messages EXCEPT ![c] = appendPlaceholder(@, data)]
             /\ running' = running
        ELSE /\ messages' = messages
             /\ running' = Spawn(c, [Task0 EXCEPT !.kind = "receive", !.pc = "decrypt",
                                       !.ev = data, !.out = plain, !.n = data.g.n,
                                       !.userId = userId[c], !.room = selectedRoom[c]])
  /\ inbox' = [inbox EXCEPT ![c] = Tail(@)]
  /\ seen' = Handed(c, Head(inbox[c]))
  /\ UNCHANGED << connected, rooms, toServer, userId, currentRoom, selectedRoom,
                  recipientId, editingMessageId, cryptoVars, keySent, nextSeq,
                  userOps, trip, typingVars, apiVars >>

\* decryptMessage settles. Without media the entry is appended and the read
\* receipt emitted; with media decryptMedia runs and calculateHash is awaited.
ReceiveDecryptDone(c, task) ==
  /\ task \in running[c]
  /\ task.kind = "receive" /\ task.pc = "decrypt"
  /\ LET data == task.ev
         media == decryptMedia(data.media.encryptedData, data.sender)
     IN IF ~task.out.ok \/ (data.media.has /\ ~media.ok)
        THEN /\ messages' = [messages EXCEPT ![c] = appendPlaceholder(@, data)]
             /\ running' = Finish(c, task)
             /\ UNCHANGED << toServer, nextSeq >>
        ELSE IF data.media.has
        THEN /\ running' = Replace(c, task, [task EXCEPT !.pc = "hash",
                                                          !.text = media.val])
             /\ UNCHANGED << messages, toServer, nextSeq >>
        ELSE /\ messages' = [messages EXCEPT ![c] =
                    Append(@, ReceivedEntry(data, task.out.val, TRUE))]
             /\ running' = Finish(c, task)
             /\ toServer' = EmitRead(c, task)
             /\ nextSeq' = nextSeq
  /\ UNCHANGED << connected, rooms, inbox, userId, currentRoom, selectedRoom,
                  recipientId, editingMessageId, cryptoVars, keySent, seen,
                  userOps, trip, typingVars, apiVars >>

\* calculateHash resolves: the entry is appended with the decrypted media and
\* verified = (calculatedHash === data.media.hash).
ReceiveHashDone(c, task) ==
  /\ task \in running[c]
  /\ task.kind = "receive" /\ task.pc = "hash"
  /\ messages' = [messages EXCEPT ![c] =
        Append(@, [ReceivedEntry(task.ev, task.out.val, TRUE) EXCEPT !.media =
             [has |-> TRUE, type |-> task.ev.media.type, data |-> task.text,
              hash |-> task.ev.media.hash,
              verified |-> mediaVerified(task.text, task.ev.media.hash)]])]
  /\ running' = Finish(c, task)
  /\ toServer' = EmitRead(c, task)
  /\ nextSeq' = nextSeq
  /\ UNCHANGED << connected, rooms, inbox, userId, currentRoom, selectedRoom,
                  recipientId, editingMessageId, cryptoVars, keySent, seen,
                  userOps, trip, typingVars, apiVars >>

\* socket.on("message-read", handleMessageRead)
handleMessageRead(c) ==
  /\ inbox[c] # <<>>
  /\ Head(inbox[c]).type = "message-read"
  /\ LET data == Head(inbox[c])
         markRead(msg) == [msg EXCEPT !.readBy = @ \cup {data.userId}]
     IN messages' = IF data.userId = userId[c] THEN messages
                    ELSE [messages EXCEPT ![c] = MapById(@, data.id, markRead)]
  /\ inbox' = [inbox EXCEPT ![c] = Tail(@)]
  /\ seen' = Handed(c, Head(inbox[c]))
  /\ UNCHANGED << connected, rooms, toServer, userId, currentRoom, selectedRoom,
                  recipientId, editingMessageId, running, cryptoVars, keySent,
                  nextSeq, userOps, trip, typingVars, apiVars >>

\* ------------------------------------------------------ editing and deleting
\* socket.on("message-edit", handleMessageEdit) up to the await of
\* decryptMessage; a throw is logged and the list stays as it is.
handleMessageEdit(c) ==
  /\ inbox[c] # <<>>
  /\ Head(inbox[c]).type = "message-edit"
  /\ LET data == Head(inbox[c])
         plain == decryptMessage(c, keyPair[c], peerPublicKeys[c],
                                 data.encryptedMessage, data.sender)
     IN running' = IF PeerKey(peerPublicKeys[c], data.sender) = NoKey \/ keyPair[c] = 0
                   THEN running
                   ELSE Spawn(c, [Task0 EXCEPT !.kind = "edited", !.pc = "decrypt",
                                    !.ev = data, !.out = plain, !.n = data.g.n])
  /\ inbox' = [inbox EXCEPT ![c] = Tail(@)]
  /\ seen' = Handed(c, Head(inbox[c]))
  /\ UNCHANGED << connected, rooms, toServer, userId, currentRoom, selectedRoom,
                  recipientId, messages, editingMessageId, cryptoVars, keySent,
                  nextSeq, userOps, trip, typingVars, apiVars >>

EditDecryptDone(c, task) ==
  /\ task \in running[c]
  /\ task.kind = "edited" /\ task.pc = "decrypt"
  /\ LET withText(msg) == [msg EXCEPT !.text = task.out.val,
                                      !.editedAt = task.ev.editedAt]
     IN messages' = IF task.out.ok
                    THEN [messages EXCEPT ![c] = MapById(@, task.ev.id, withText)]
                    ELSE messages
  /\ running' = Finish(c, task)
  /\ UNCHANGED << netVars, userId, currentRoom, selectedRoom, recipientId,
                  editingMessageId, cryptoVars, histVars, trip, typingVars, apiVars >>

markDeleted(msg) == [msg EXCEPT !.isDeleted = TRUE]

\* prev.map((msg) => (msg.id === id ? { ...msg, isDeleted: true } : msg)), and
\* a delete that filters the entry out instead.
removeById(list, id) == SelectSeq(list, LAMBDA msg : msg.id # id)
tombstone(list, id) == MapById(list, id, markDeleted)

\* socket.on("message-delete", handleMessageDelete)
handleMessageDelete(c) ==
  /\ inbox[c] # <<>>
  /\ Head(inbox[c]).type = "message-delete"
  /\ messages' = [messages EXCEPT ![c] = tombstone(@, Head(inbox[c]).id)]
  /\ inbox' = [inbox EXCEPT ![c] = Tail(@)]
  /\ seen' = Handed(c, Head(inbox[c]))
  /\ UNCHANGED << connected, rooms, toServer, userId, currentRoom, selectedRoom,
                  recipientId, editingMessageId, running, cryptoVars, keySent,
                  nextSeq, userOps, trip, typingVars, apiVars >>

\* filteredMessages(selectedRoom): the entries the chat pane lists.
Listed(c, msg) ==
  /\ selectedRoom[c] # Null
  /\ (msg.sender = userId[c] \/ currentRoom[c] = selectedRoom[c])

\* The reply, edit and delete buttons are rendered for an entry when
\* !message.isDeleted && editingMessageId !== message.id.
HasActions(c, msg) ==
  Listed(c, msg) /\ ~msg.isDeleted /\ editingMessageId[c] # msg.id

\* Edits and deletes the users have made.
Changes ==
  userOps["A"].edit + userOps["A"].delete + userOps["B"].edit + userOps["B"].delete

\* The edit button of entry i: handleEditMessage(message.id, message.text).
handleEditMessage(c, i) ==
  /\ i \in DOMAIN messages[c]
  /\ HasActions(c, messages[c][i])
  /\ Changes < MaxChanges
  /\ userOps' = [userOps EXCEPT ![c].edit = @ + 1]
  /\ editingMessageId' = [editingMessageId EXCEPT ![c] = messages[c][i].id]
  /\ UNCHANGED << netVars, userId, currentRoom, selectedRoom, recipientId, messages,
                  running, cryptoVars, keySent, nextSeq, seen, trip, typingVars, apiVars >>

\* The message a list entry with this id stems from (0 when there is none).
StemOf(c, id) ==
  IF \E i \in DOMAIN messages[c] : messages[c][i].id = id
  THEN messages[c][CHOOSE i \in DOMAIN messages[c] : messages[c][i].id = id].n
  ELSE 0

\* saveEditedMessage with editText typed, up to the await of encryptMessage.
saveEditedMessage(c, editText, iv) ==
  /\ editingMessageId[c] # 0
  /\ LET envelope == encryptMessage(c, keyPair[c], peerPublicKeys[c], editText,
                                    recipientId[c], iv)
     IN IF editText = <<>> \/ selectedRoom[c] = Null \/ recipientId[c] = Null
        THEN /\ editingMessageId' = [editingMessageId EXCEPT ![c] = 0]
             /\ running' = running
        ELSE /\ editingMessageId' = editingMessageId
             /\ running' = IF envelope.ok
                  THEN Spawn(c, [Task0 EXCEPT !.kind = "saveEdit", !.pc = "encrypt",
                         !.ev = [Event0 EXCEPT !.id = editingMessageId[c]],
                         !.text = editText, !.out = envelope,
                         !.room = selectedRoom[c],
                         !.n = StemOf(c, editingMessageId[c])])
                  ELSE running
  /\ UNCHANGED << netVars, userId, currentRoom, selectedRoom, recipientId, messages,
                  cryptoVars, histVars, trip, typingVars, apiVars >>

\* encryptMessage resolves: the local entry is updated, edit-message emitted
\* and the edit state cleared.
SaveEncryptDone(c, task) ==
  /\ task \in running[c]
  /\ task.kind = "saveEdit" /\ task.pc = "encrypt"
  /\ LET withText(msg) == [msg EXCEPT !.text = task.text, !.editedAt = Now]
     IN messages' = [messages EXCEPT ![c] = MapById(@, task.ev.id, withText)]
  /\ nextSeq' = nextSeq
  /\ toServer' = IF c \in connected
        THEN [toServer EXCEPT ![c] =
               Emitted(c, [Event0 EXCEPT !.type = "edit-message", !.id = task.ev.id,
                          !.roomId = task.room, !.encryptedMessage = task.out.val,
                          !.editedAt = Now], task.n)]
        ELSE toServer
  /\ editingMessageId' = [editingMessageId EXCEPT ![c] = 0]
  /\ running' = Finish(c, task)
  /\ UNCHANGED << connected, rooms, inbox, userId, currentRoom, selectedRoom,
                  recipientId, cryptoVars, keySent, seen, userOps, trip, typingVars, apiVars >>

\* The delete button of entry i: handleDeleteMessage(message.id).
handleDeleteMessage(c, i) ==
  /\ i \in DOMAIN messages[c]
  /\ HasActions(c, messages[c][i])
  /\ Changes < MaxChanges
  /\ userOps' = [userOps EXCEPT ![c].delete = @ + 1]
  /\ messages' = [messages EXCEPT ![c] = tombstone(@, messages[c][i].id)]
  /\ nextSeq' = nextSeq
  /\ toServer' = IF c \in connected
        THEN [toServer EXCEPT ![c] =
               Emitted(c, [Event0 EXCEPT !.type = "delete-message", !.id = messages[c][i].id,
                          !.roomId = selectedRoom[c]], messages[c][i].n)]
        ELSE toServer
  /\ UNCHANGED << connected, rooms, inbox, userId, currentRoom, selectedRoom,
                  recipientId, editingMessageId, running, cryptoVars, keySent,
                  seen, trip, typingVars, apiVars >>

\* ------------------------------------------------------------ the chat room
\* A and B are connected and joined to r1; A has sent B its public key and B, holding it, is about to reply.
KeyFromA ==
  [Event0 EXCEPT !.type = "exchange-keys", !.userId = "A",
                 !.publicKey = PublicKeyString("A", 1),
                 !.g = [seq |-> 0, from |-> "A", room |-> "B", n |-> 0]]

ChatConn == {"A", "B"}

InRoom ==
  /\ connected = ChatConn
  /\ rooms = [r \in RoomId |-> IF r = "r1" THEN ChatConn
                               ELSE IF r \in ChatConn THEN {r} ELSE {}]
  /\ toServer = [c \in Conn |-> <<>>]
  /\ inbox = [c \in Conn |-> <<>>]
  /\ userId = [c \in Conn |-> IF c \in ChatConn THEN c ELSE Null]
  /\ currentRoom = [c \in Conn |-> IF c \in ChatConn THEN "r1" ELSE Null]
  /\ selectedRoom = currentRoom
  /\ messages = [c \in Conn |-> <<>>]
  /\ editingMessageId = [c \in Conn |-> 0]
  /\ running = [c \in Conn |-> IF c = "B"
        THEN {[Task0 EXCEPT !.kind = "keyExchange", !.pc = "exportKey",
                            !.ev = KeyFromA, !.userId = "B", !.to = "A",
                            !.text = PublicKeyString("B", 1)]}
        ELSE {}]
  /\ keyPair = [c \in Conn |-> IF c \in ChatConn THEN 1 ELSE 0]
  /\ keyGens = keyPair
  /\ peerPublicKeys = [c \in Conn |-> [p \in Conn |->
        IF c = "B" /\ p = "A" THEN exportKey("A", 1) ELSE NoKey]]
  /\ keySent = [c \in Conn |-> [p \in Conn |-> IF c = "A" /\ p = "B" THEN 1 ELSE 0]]
  /\ nextSeq = 1
  /\ seen = [c \in Conn |-> {}]
  /\ userOps = [c \in Conn |-> IF c \in ChatConn THEN [NoOps EXCEPT !.join = 1]
                               ELSE NoOps]
  /\ trip = NoTrip
  /\ NoTyping
  /\ NoApi

\* The recipient field is a text input: B has typed A's id, A has typed none.
InitChat == InRoom /\ recipientId = [c \in Conn |-> IF c = "B" THEN "A" ELSE Null]

NextChat ==
  \/ \E c \in ChatConn : ServerHandle(c)
  \/ \E c \in ChatConn : handleKeyExchange(c)
  \/ \E c \in ChatConn : \E task \in running[c] : ImportKeyDone(c, task)
  \/ \E c \in ChatConn : \E task \in running[c] : ExportKeyDone(c, task)
  \/ \E c \in ChatConn : \E text \in SendTexts : \E file \in MediaFiles \cup {NoFile} :
       handleSendMessage(c, text, file, FreshIv(userOps[c].send))
  \/ \E c \in ChatConn : \E task \in running[c] :
       MediaReady(c, task, FreshIv(task.n))
  \/ \E c \in ChatConn : \E task \in running[c] : SendEncryptDone(c, task)
  \/ \E c \in ChatConn : handleReceiveMessage(c)
  \/ \E c \in ChatConn : \E task \in running[c] : ReceiveDecryptDone(c, task)
  \/ \E c \in ChatConn : \E task \in running[c] : ReceiveHashDone(c, task)
  \/ \E c \in ChatConn : handleMessageRead(c)
  \/ \E c \in ChatConn : handleMessageEdit(c)
  \/ \E c \in ChatConn : \E task \in running[c] : EditDecryptDone(c, task)
  \/ \E c \in ChatConn : handleMessageDelete(c)
  \/ \E c \in ChatConn : \E i \in 1..(2 * MaxSends) : handleEditMessage(c, i)
  \/ \E c \in ChatConn : \E text \in EditTexts :
       saveEditedMessage(c, text, FreshIv(userOps[c].edit))
  \/ \E c \in ChatConn : \E task \in running[c] : SaveEncryptDone(c, task)
  \/ \E c \in ChatConn : \E i \in 1..(2 * MaxSends) : handleDeleteMessage(c, i)

SpecChat == InitChat /\ [][NextChat]_vars

\* ------------------------------------------------------------ claims C7-C10
MsgNums == 1..(3 * MaxSends)

\* The receive-message events client c's handlers have been handed.
Received(c) == { h \in seen[c] : h.type = "receive-message" }

\* Where in c's list the entry made for the received event h is (0: nowhere).
EntryOf(c, h) ==
  IF \E i \in DOMAIN messages[c] : messages[c][i].id = h.id
  THEN CHOOSE i \in DOMAIN messages[c] : messages[c][i].id = h.id
  ELSE 0

\* C7 as stated: when a recipient is handed m1 before m2 (the order the server
\* relayed them in), m1's entry is before m2's in the recipient's list.
C7_ReceiveOrderPreserved ==
  \A c \in ChatConn : \A h1 \in Received(c) : \A h2 \in Received(c) :
    (h1.order < h2.order /\ EntryOf(c, h1) # 0 /\ EntryOf(c, h2) # 0)
      => EntryOf(c, h1) < EntryOf(c, h2)

\* The events of type t from the sender of h, about the message of h, that
\* client c was handed after h.
HandedAfter(c, h, t) ==
  { k \in seen[c] : k.type = t /\ k.n = h.n /\ k.from = h.from /\ k.order > h.order }

\* No handler of c is still working on message n.
Settled(c, n) == \A task \in running[c] : task.n # n

\* C8 as stated: when the recipient was handed m and afterwards a delete (an
\* edit) of m from m's sender, and its handlers are done, its entry of m is
\* deleted (edited).
C8_EditOrDeleteReflected ==
  \A c \in ChatConn : \A h \in Received(c) :
    (Settled(c, h.n) /\ EntryOf(c, h) # 0) =>
       /\ HandedAfter(c, h, "message-delete") # {}
            => messages[c][EntryOf(c, h)].isDeleted
       /\ HandedAfter(c, h, "message-edit") # {}
            => messages[c][EntryOf(c, h)].editedAt # 0

\* Client c emits an edit-message or a delete-message in this step.
EmitsChange(c) ==
  /\ Len(toServer'[c]) = Len(toServer[c]) + 1
  /\ toServer'[c][Len(toServer'[c])].type \in {"edit-message", "delete-message"}

\* C9 as stated: a client changes the text or isDeleted of an entry locally and
\* emits edit-message or delete-message for it only when the entry's sender is
\* the client's own id.
C9_OnlyOwnMessagesChanged ==
  [][ \A c \in ChatConn : EmitsChange(c) =>
        \A i \in DOMAIN messages[c] :
          messages[c][i].id = toServer'[c][Len(toServer'[c])].id
            => messages[c][i].sender = userId[c] ]_vars

\* Entries of c's list with this id, and handlers of c still working on the
\* receive-message event with this id.
EntriesWith(c, id) == { i \in DOMAIN messages[c] : messages[c][i].id = id }
ReceivingOf(c, id) == { task \in running[c] : task.kind = "receive" /\ task.ev.id = id }

\* A received entry is the decrypted text, or the placeholder.
DecryptedOrPlaceholder(msg) ==
  IF msg.isDecrypted THEN msg.text \in SendTexts ELSE msg.text = Undecryptable

\* C10: every receive-message event a client is handed is, once its handler is
\* done, exactly one entry of the list, with the event's id and sender, that is
\* the decrypted text or the placeholder; and a step that adds an entry appends
\* it and leaves the entries before it as they were; the entry a finishing
\* handler adds is decrypted exactly when decryption succeeded.
C10_OneEntryPerReceive ==
  /\ [](\A c \in ChatConn : \A h \in Received(c) :
          /\ Cardinality(EntriesWith(c, h.id)) + Cardinality(ReceivingOf(c, h.id)) = 1
          /\ \A i \in EntriesWith(c, h.id) :
               /\ messages[c][i].sender = h.from
               /\ DecryptedOrPlaceholder(messages[c][i]))
  /\ [][ \A c \in ChatConn : Len(messages'[c]) # Len(messages[c]) =>
           /\ Len(messages'[c]) = Len(messages[c]) + 1
           /\ SubSeq(messages'[c], 1, Len(messages[c])) = messages[c] ]_vars
  /\ [][ \A c \in ChatConn : \A task \in running[c] :
           (task.kind = "receive" /\ task \notin running'[c]
              /\ Len(messages'[c]) # Len(messages[c])) =>
             LET msg == messages'[c][Len(messages'[c])]
                 clear == /\ task.out.ok
                          /\ task.ev.media.has =>
                                decryptMedia(task.ev.media.encryptedData,
                                             task.ev.sender).ok
             IN /\ msg.id = task.ev.id
                /\ msg.isDecrypted = clear
                /\ clear => msg.text = task.out.val ]_vars

\* A was handed two messages: the first, come before B's key, is a placeholder
\* and the second, handled after it, is decrypted.
C10_Witness ==
  \E h1 \in Received("A") : \E h2 \in Received("A") :
    /\ h1.order < h2.order
    /\ EntryOf("A", h1) # 0 /\ EntryOf("A", h2) # 0
    /\ ~messages["A"][EntryOf("A", h1)].isDecrypted
    /\ messages["A"][EntryOf("A", h2)].isDecrypted
    /\ messages["A"][EntryOf("A", h2)].text \in SendTexts

\* ------------------------------------------------------- three in a room
\* The exchange-keys event of p as relayed to me, and the handler of me that,
\* having imported it, is about to send its own key back.
KeyEvent(p, me) ==
  [Event0 EXCEPT !.type = "exchange-keys", !.userId = p,
                 !.publicKey = PublicKeyString(p, 1),
                 !.g = [NoTag EXCEPT !.from = p, !.room = me]]

KeyReply(me, p) ==
  [Task0 EXCEPT !.kind = "keyExchange", !.pc = "exportKey", !.ev = KeyEvent(p, me),
                !.userId = me, !.to = p, !.text = PublicKeyString(me, 1)]

\* B, A and then C have joined r1. B has exchanged keys with A and with C as
\* often as the bound lets it; A, told that C joined, is about to send C its key.
InGroup ==
  /\ connected = Conn
  /\ rooms = [r \in RoomId |-> IF r = "r1" THEN Conn
                               ELSE IF r \in Conn THEN {r} ELSE {}]
  /\ toServer = [c \in Conn |-> <<>>]
  /\ inbox = [c \in Conn |-> <<>>]
  /\ userId = [c \in Conn |-> c]
  /\ currentRoom = [c \in Conn |-> "r1"]
  /\ selectedRoom = currentRoom
  /\ messages = [c \in Conn |-> <<>>]
  /\ editingMessageId = [c \in Conn |-> 0]
  /\ running = [c \in Conn |->
        CASE c = "A" -> {[Task0 EXCEPT !.kind = "userConnected", !.pc = "exportKey",
                                       !.userId = "A", !.to = "C",
                                       !.text = PublicKeyString("A", 1)]}
          [] c = "B" -> {KeyReply("B", "A"), KeyReply("B", "C")}
          [] OTHER -> {}]
  /\ keyPair = [c \in Conn |-> 1]
  /\ keyGens = keyPair
  /\ peerPublicKeys = [c \in Conn |-> [p \in Conn |->
        IF c # p /\ "B" \in {c, p} THEN exportKey(p, 1) ELSE NoKey]]
  /\ keySent = [c \in Conn |-> [p \in Conn |->
        IF c # p /\ "B" \in {c, p} THEN MaxKeySends ELSE 0]]
  /\ nextSeq = 1
  /\ seen = [c \in Conn |-> {}]
  /\ userOps = [c \in Conn |-> [NoOps EXCEPT !.join = 1]]
  /\ trip = NoTrip
  /\ NoTyping
  /\ NoApi

\* A has typed B's id as the recipient; B and C have typed none.
InitGroup == InGroup /\ recipientId = [c \in Conn |-> IF c = "A" THEN "B" ELSE Null]

NextGroup ==
  \/ \E c \in Conn : ServerHandle(c)
  \/ \E c \in Conn : handleKeyExchange(c)
  \/ \E c \in Conn : \E task \in running[c] : ImportKeyDone(c, task)
  \/ \E c \in Conn : \E task \in running[c] : ExportKeyDone(c, task)
  \/ \E c \in Conn : \E text \in SendTexts : \E file \in MediaFiles \cup {NoFile} :
       handleSendMessage(c, text, file, FreshIv(userOps[c].send))
  \/ \E c \in Conn : \E task \in running[c] : MediaReady(c, task, FreshIv(task.n))
  \/ \E c \in Conn : \E task \in running[c] : SendEncryptDone(c, task)
  \/ \E c \in Conn : handleReceiveMessage(c)
  \/ \E c \in Conn : \E task \in running[c] : ReceiveDecryptDone(c, task)
  \/ \E c \in Conn : \E task \in running[c] : ReceiveHashDone(c, task)
  \/ \E c \in Conn : handleMessageRead(c)

SpecGroup == InitGroup /\ [][NextGroup]_vars

\* ------------------------------------------------- sending before the key
\* As InitChat, but it is A, still without B's key, that has typed a recipient.
InitUnkeyed == InRoom /\ recipientId = [c \in Conn |-> IF c = "A" THEN "B" ELSE Null]

SpecUnkeyed == InitUnkeyed /\ [][NextChat]_vars

EntriesFrom(c, from) ==
  { i \in DOMAIN messages[c] : messages[c][i].sender = from /\ c # from }

\* C12: what A encrypted for B is plaintext at B only: the entry C makes for
\* it is the placeholder, and no receive handler of C holds the plaintext,
\* whether or not C had A's key when the event was handed over.
C12_PlaintextOnlyAtRecipient ==
  /\ \A i \in EntriesFrom("C", "A") :
       /\ ~messages["C"][i].isDecrypted
       /\ messages["C"][i].text = Undecryptable
  /\ \A task \in running["C"] :
       (task.kind = "receive" /\ task.ev.sender = "A") => ~task.out.ok

\* C, holding A's key when it was handed the message, has the placeholder for
\* the message that B has decrypted.
C12_Witness ==
  \E h \in Received("C") : \E i \in EntriesFrom("B", "A") :
    /\ h.keyed /\ h.from = "A"
    /\ EntryOf("C", h) # 0
    /\ ~messages["C"][EntryOf("C", h)].isDecrypted
    /\ messages["B"][i].id = h.id
    /\ messages["B"][i].isDecrypted /\ messages["B"][i].text \in SendTexts

\* ---------------------------------------------------------------- reactions
Emojis == {"thumb", "heart"}

\* updatedReactions.some((r) => r.userId === user && r.emoji === emoji)
hasReaction(reactions, user, emoji) ==
  \E k \in DOMAIN reactions : reactions[k].userId = user /\ reactions[k].emoji = emoji

\* updatedReactions.filter((r) => !(r.userId === user && r.emoji === emoji))
removeOfEveryone(reactions, user, emoji) ==
  SelectSeq(reactions, LAMBDA r : r.emoji # emoji)
removeReaction(reactions, user, emoji) ==
  SelectSeq(reactions, LAMBDA r : ~(r.userId = user /\ r.emoji = emoji))

\* [...updatedReactions, {userId: as, emoji}] unless user has that reaction;
\* as is the id written into the new reaction.
addAgain(reactions, user, as, emoji) ==
  Append(reactions, [userId |-> as, emoji |-> emoji])
addReaction(reactions, user, as, emoji) ==
  IF hasReaction(reactions, user, emoji) THEN reactions
  ELSE Append(reactions, [userId |-> as, emoji |-> emoji])

\* The map both handlers run over the list.
React(list, id, user, as, emoji, remove) ==
  [ i \in DOMAIN list |->
      IF list[i].id = id
      THEN [list[i] EXCEPT !.reactions =
              IF remove THEN removeReaction(@, user, emoji)
              ELSE addReaction(@, user, as, emoji)]
      ELSE list[i] ]

Reacts == userOps["A"].react + userOps["B"].react + userOps["C"].react

\* handleReaction(message.id, emoji, remove) for entry i: from the emoji picker
\* among the entry's action buttons (remove undefined), or from the button of
\* one of its reactions (remove = that reaction is the user's own).
handleReaction(c, i, emoji, remove) ==
  /\ i \in DOMAIN messages[c]
  /\ Reacts < MaxReacts
  /\ \/ HasActions(c, messages[c][i]) /\ ~remove
     \/ /\ Listed(c, messages[c][i])
        /\ \E k \in DOMAIN messages[c][i].reactions :
             /\ messages[c][i].reactions[k].emoji = emoji
             /\ remove = (messages[c][i].reactions[k].userId = userId[c])
  /\ selectedRoom[c] # Null
  /\ userOps' = [userOps EXCEPT ![c].react = @ + 1]
  /\ messages' = [messages EXCEPT ![c] =
        React(@, messages[c][i].id, userId[c], orUnknown(userId[c]), emoji, remove)]
  /\ toServer' = IF c \in connected
        THEN [toServer EXCEPT ![c] =
               Emitted(c, [Event0 EXCEPT !.type = "message-reaction",
                             !.id = messages[c][i].id, !.roomId = selectedRoom[c],
                             !.emoji = emoji, !.remove = remove], messages[c][i].n)]
        ELSE toServer
  /\ UNCHANGED << connected, rooms, inbox, userId, currentRoom, selectedRoom,
                  recipientId, editingMessageId, running, cryptoVars, keySent,
                  nextSeq, seen, trip, typingVars, apiVars >>

\* socket.on("message-reaction", handleMessageReaction)
handleMessageReaction(c) ==
  /\ inbox[c] # <<>>
  /\ Head(inbox[c]).type = "message-reaction"
  /\ LET data == Head(inbox[c])
     IN messages' = [messages EXCEPT ![c] =
           React(@, data.id, data.userId, data.userId, data.emoji, data.remove)]
  /\ inbox' = [inbox EXCEPT ![c] = Tail(@)]
  /\ seen' = Handed(c, Head(inbox[c]))
  /\ UNCHANGED << connected, rooms, toServer, userId, currentRoom, selectedRoom,
                  recipientId, editingMessageId, running, cryptoVars, keySent,
                  nextSeq, userOps, trip, typingVars, apiVars >>

\* A has sent two text messages for B. B has decrypted both and told the room
\* it read them; C, then without A's key, has placeholders; all keys are
\* exchanged as often as the bound allows and nothing is in flight.
Tag(type, id, from, n, order, keyed) ==
  [type |-> type, id |-> id, from |-> from, n |-> n, order |-> order, keyed |-> keyed,
   emoji |-> Null, remove |-> FALSE]

SentByA(k) ==
  [Message0 EXCEPT !.id = LocalId(MsgNum("A", k)), !.text = << 97 >>, !.sender = "A",
                   !.timestamp = Now, !.isDecrypted = TRUE, !.readBy = {"A"},
                   !.n = MsgNum("A", k)]

FromA(k, text, isDecrypted, readBy) ==
  [Message0 EXCEPT !.id = WireId(MsgNum("A", k)), !.text = text, !.sender = "A",
                   !.timestamp = Now, !.isDecrypted = isDecrypted, !.readBy = readBy,
                   !.n = MsgNum("A", k)]

InQuiet ==
  /\ connected = Conn
  /\ rooms = [r \in RoomId |-> IF r = "r1" THEN Conn
                               ELSE IF r \in Conn THEN {r} ELSE {}]
  /\ toServer = [c \in Conn |-> <<>>]
  /\ inbox = [c \in Conn |-> <<>>]
  /\ userId = [c \in Conn |-> c]
  /\ currentRoom = [c \in Conn |-> "r1"]
  /\ selectedRoom = currentRoom
  /\ recipientId = [c \in Conn |-> IF c = "A" THEN "B" ELSE Null]
  /\ messages = [c \in Conn |->
        CASE c = "A" -> << SentByA(1), SentByA(2) >>
          [] c = "B" -> << FromA(1, << 97 >>, TRUE, {}), FromA(2, << 97 >>, TRUE, {}) >>
          [] OTHER -> << FromA(1, Undecryptable, FALSE, {"B"}),
                         FromA(2, Undecryptable, FALSE, {"B"}) >>]
  /\ editingMessageId = [c \in Conn |-> 0]
  /\ running = [c \in Conn |->
        CASE c = "A" -> {KeyReply("A", "C")}
          [] c = "B" -> {KeyReply("B", "A"), KeyReply("B", "C")}
          [] OTHER -> {}]
  /\ keyPair = [c \in Conn |-> 1]
  /\ keyGens = keyPair
  /\ peerPublicKeys = [c \in Conn |-> [p \in Conn |->
        IF c # p THEN exportKey(p, 1) ELSE NoKey]]
  /\ keySent = [c \in Conn |-> [p \in Conn |-> IF c # p THEN MaxKeySends ELSE 0]]
  /\ nextSeq = 1
  /\ seen = [c \in Conn |->
        LET read(k, order) == Tag("message-read", WireId(MsgNum("A", k)), "B",
                                  MsgNum("A", k), order, FALSE)
            got(k, keyed) == Tag("receive-message", WireId(MsgNum("A", k)), "A",
                                 MsgNum("A", k), k, keyed)
        IN CASE c = "A" -> {read(1, 1), read(2, 2)}
             [] c = "B" -> {got(1, TRUE), got(2, TRUE)}
             [] OTHER -> {got(1, FALSE), got(2, FALSE), read(1, 3), read(2, 4)}]
  /\ userOps = [c \in Conn |-> IF c = "A" THEN [NoOps EXCEPT !.join = 1, !.send = 2]
                               ELSE [NoOps EXCEPT !.join = 1]]
  /\ trip = NoTrip
  /\ NoTyping
  /\ NoApi

NextReact ==
  \/ \E c \in Conn : \E i \in 1..2 : \E emoji \in Emojis : \E remove \in BOOLEAN :
       handleReaction(c, i, emoji, remove)
  \/ \E c \in Conn : ServerHandle(c)
  \/ \E c \in Conn : handleMessageReaction(c)

SpecReact == InQuiet /\ [][NextReact]_vars

\* ------------------------------------------------------------- C13 and C14
\* The reaction client c applies in this step, if it applies one: its own
\* (handleReaction) or a relayed one (handleMessageReaction).
ReactsLocally(c) == userOps'[c].react # userOps[c].react
LocalReaction(c) ==
  LET data == toServer'[c][Len(toServer'[c])]
  IN [id |-> data.id, userId |-> userId[c], emoji |-> data.emoji, remove |-> data.remove]

ReactsRelayed(c) ==
  /\ inbox[c] # <<>> /\ Head(inbox[c]).type = "message-reaction"
  /\ inbox'[c] = Tail(inbox[c])
RelayedReaction(c) ==
  LET data == Head(inbox[c])
  IN [id |-> data.id, userId |-> data.userId, emoji |-> data.emoji, remove |-> data.remove]

\* The reaction r, on entries with its id, adds a pair that is there or removes
\* one that is not: client c's list stays as it is.
NoOpWhenRedundant(c, r) ==
  (\A i \in DOMAIN messages[c] :
      messages[c][i].id = r.id =>
        (r.remove # hasReaction(messages[c][i].reactions, r.userId, r.emoji)))
    => messages'[c] = messages[c]

\* C13: the reactions of an entry never hold the same (user, emoji) pair
\* twice; adding a pair that is present and removing one that is absent
\* change nothing.
C13_OneReactionPerUserAndEmoji ==
  /\ [](\A c \in Conn : \A i \in DOMAIN messages[c] :
          \A k1, k2 \in DOMAIN messages[c][i].reactions :
            messages[c][i].reactions[k1] = messages[c][i].reactions[k2] => k1 = k2)
  /\ [][ \A c \in Conn :
           /\ ReactsLocally(c) => NoOpWhenRedundant(c, LocalReaction(c))
           /\ ReactsRelayed(c) => NoOpWhenRedundant(c, RelayedReaction(c)) ]_vars

\* C was handed the same add of B twice, with no remove between, and holds the
\* pair once.
C13_Witness ==
  \E h1, h2 \in seen["C"] : \E i \in DOMAIN messages["C"] :
    /\ h1.type = "message-reaction" /\ h2.type = "message-reaction"
    /\ h1.order < h2.order
    /\ h1.from = "B" /\ h2.from = "B" /\ h1.id = h2.id /\ h1.emoji = h2.emoji
    /\ ~h1.remove /\ ~h2.remove
    /\ \A h \in seen["C"] : ~(h.type = "message-reaction" /\ h.remove)
    /\ messages["C"][i].id = h1.id
    /\ Len(SelectSeq(messages["C"][i].reactions,
                     LAMBDA r : r.userId = "B" /\ r.emoji = h1.emoji)) = 1

\* The pairs of reactions other than (user, emoji), in their order.
Others(reactions, user, emoji) ==
  SelectSeq(reactions, LAMBDA r : ~(r.userId = user /\ r.emoji = emoji))

\* Applying reaction r, client c changes nothing but (r.userId, r.emoji) pairs
\* of the entries with r's id.
OnlyOwnPairs(c, r) ==
  /\ DOMAIN messages'[c] = DOMAIN messages[c]
  /\ \A i \in DOMAIN messages[c] :
       IF messages[c][i].id = r.id
       THEN /\ [messages'[c][i] EXCEPT !.reactions = <<>>]
                 = [messages[c][i] EXCEPT !.reactions = <<>>]
            /\ Others(messages'[c][i].reactions, r.userId, r.emoji)
                 = Others(messages[c][i].reactions, r.userId, r.emoji)
       ELSE messages'[c][i] = messages[c][i]

\* C14: a reaction of user U, applied locally or as relayed, changes only
\* (U, emoji) pairs of the targeted entry, and a relayed reaction carries the
\* id of the socket that emitted it.
C14_ReactionTouchesOnlyOwnPairs ==
  [][ \A c \in Conn :
        /\ ReactsLocally(c) => OnlyOwnPairs(c, LocalReaction(c))
        /\ ReactsRelayed(c) =>
             /\ OnlyOwnPairs(c, RelayedReaction(c))
             /\ Head(inbox[c]).userId = Head(inbox[c]).g.from ]_vars

\* C has applied B's removal of an emoji and still holds its own reaction with
\* that emoji on the same entry.
C14_Witness ==
  \E h \in seen["C"] : \E i \in DOMAIN messages["C"] :
    /\ h.type = "message-reaction" /\ h.remove /\ h.from = "B"
    /\ messages["C"][i].id = h.id
    /\ hasReaction(messages["C"][i].reactions, "C", h.emoji)
    /\ ~hasReaction(messages["C"][i].reactions, "B", h.emoji)

\* ------------------------------------------------------------------ typing
\* The clock advances in half sweep periods.
Tick == SweepPeriod \div 2

\* prev.filter((user) => now - user.timestamp < 3000)
keepAll(t, timestamp) == TRUE
stillTyping(t, timestamp) == t - timestamp < TypingTtl

\* handleInputChange: "only emit if not already typing".
emitAlways(typing) == TRUE
emitsTyping(typing) == ~typing

\* handleInputChange: the input field changes.
handleInputChange(c) ==
  /\ userOps[c].type < MaxKeystrokes
  /\ userOps' = [userOps EXCEPT ![c].type = @ + 1]
  /\ IF c \in connected /\ userId[c] # Null /\ selectedRoom[c] # Null
     THEN /\ typingTimeout' = [typingTimeout EXCEPT ![c] = now + TypingPause]
          /\ IF emitsTyping(isTyping[c])
             THEN /\ toServer' = [toServer EXCEPT ![c] =
                        Emitted(c, [Event0 EXCEPT !.type = "user-typing",
                                      !.userId = userId[c], !.roomId = selectedRoom[c]], 0)]
                  /\ isTyping' = [isTyping EXCEPT ![c] = TRUE]
                  /\ typedAt' = [typedAt EXCEPT ![c] = @ \cup {now}]
             ELSE UNCHANGED << toServer, isTyping, typedAt >>
     ELSE UNCHANGED << typingTimeout, toServer, isTyping, typedAt >>
  /\ UNCHANGED << connected, rooms, inbox, chatVars, cryptoVars, keySent, nextSeq,
                  seen, trip, now, typingUsers, sweepAt,
                  apiVars >>

\* The typing timeout is due: setIsTyping(false).
TypingTimeout(c) ==
  /\ typingTimeout[c] # 0 /\ typingTimeout[c] = now
  /\ isTyping' = [isTyping EXCEPT ![c] = FALSE]
  /\ typingTimeout' = [typingTimeout EXCEPT ![c] = 0]
  /\ UNCHANGED << netVars, chatVars, cryptoVars, histVars, trip, now, typingUsers,
                  sweepAt, typedAt,
                  apiVars >>

\* socket.on("user-typing", handleUserTyping)
handleUserTyping(c) ==
  /\ inbox[c] # <<>>
  /\ Head(inbox[c]).type = "user-typing"
  /\ LET data == Head(inbox[c])
     IN typingUsers' =
          IF data.userId = userId[c] \/ data.roomId # selectedRoom[c] THEN typingUsers
          ELSE [typingUsers EXCEPT ![c] =
                  Append(SelectSeq(@, LAMBDA u : u.userId # data.userId),
                         [userId |-> data.userId, timestamp |-> now])]
  /\ inbox' = [inbox EXCEPT ![c] = Tail(@)]
  /\ seen' = Handed(c, Head(inbox[c]))
  /\ UNCHANGED << connected, rooms, toServer, chatVars, cryptoVars, keySent, nextSeq,
                  userOps, trip, now, isTyping, typingTimeout, sweepAt, typedAt,
                  apiVars >>

\* The sweep that runs every second.
Sweep(c) ==
  /\ sweepAt[c] = now
  /\ typingUsers' = [typingUsers EXCEPT ![c] =
        SelectSeq(@, LAMBDA u : stillTyping(now, u.timestamp))]
  /\ sweepAt' = [sweepAt EXCEPT ![c] = now + SweepPeriod]
  /\ UNCHANGED << netVars, chatVars, cryptoVars, histVars, trip, now, isTyping,
                  typingTimeout, typedAt,
                  apiVars >>

\* Time passes, once every timer that is due has run.
TimerDue(c) == sweepAt[c] = now \/ (typingTimeout[c] # 0 /\ typingTimeout[c] = now)

Elapse ==
  /\ now < MaxTicks * Tick
  /\ \A c \in ChatConn : ~TimerDue(c)
  /\ now' = now + Tick
  /\ UNCHANGED << netVars, chatVars, cryptoVars, histVars, trip, typingUsers, isTyping,
                  typingTimeout, sweepAt, typedAt,
                  apiVars >>

\* A and then B have joined r1 and exchanged keys as often as the bound lets
\* them; nothing is in flight.
InPair ==
  /\ connected = ChatConn
  /\ rooms = [r \in RoomId |-> IF r = "r1" THEN ChatConn
                               ELSE IF r \in ChatConn THEN {r} ELSE {}]
  /\ toServer = [c \in Conn |-> <<>>]
  /\ inbox = [c \in Conn |-> <<>>]
  /\ userId = [c \in Conn |-> IF c \in ChatConn THEN c ELSE Null]
  /\ currentRoom = [c \in Conn |-> IF c \in ChatConn THEN "r1" ELSE Null]
  /\ selectedRoom = currentRoom
  /\ recipientId = [c \in Conn |-> Null]
  /\ messages = [c \in Conn |-> <<>>]
  /\ editingMessageId = [c \in Conn |-> 0]
  /\ running = [c \in Conn |-> IF c = "A" THEN {KeyReply("A", "B")} ELSE {}]
  /\ keyPair = [c \in Conn |-> IF c \in ChatConn THEN 1 ELSE 0]
  /\ keyGens = keyPair
  /\ peerPublicKeys = [c \in Conn |-> [p \in Conn |->
        IF c # p /\ {c, p} = ChatConn THEN exportKey(p, 1) ELSE NoKey]]
  /\ keySent = [c \in Conn |-> [p \in Conn |->
        IF c # p /\ {c, p} = ChatConn THEN MaxKeySends ELSE 0]]
  /\ nextSeq = 1
  /\ seen = [c \in Conn |-> {}]
  /\ userOps = [c \in Conn |-> IF c \in ChatConn THEN [NoOps EXCEPT !.join = 1]
                               ELSE NoOps]
  /\ trip = NoTrip

\* The sweep of B, started when B's page loaded, runs at whole or at half
\* seconds of the clock.
InitTyping ==
  /\ InPair
  /\ now = 0
  /\ typingUsers = [c \in Conn |-> <<>>]
  /\ isTyping = [c \in Conn |-> FALSE]
  /\ typingTimeout = [c \in Conn |-> 0]
  /\ \E phase \in {Tick, SweepPeriod} :
       sweepAt = [c \in Conn |-> IF c = "B" THEN phase ELSE SweepPeriod]
  /\ typedAt = [c \in Conn |-> {}]
  /\ NoApi

NextTyping ==
  \/ Elapse
  \/ \E c \in ChatConn : Sweep(c)
  \/ \E c \in ChatConn : TypingTimeout(c)
  \/ handleInputChange("A")
  \/ \E c \in ChatConn : ServerHandle(c)
  \/ \E c \in ChatConn : handleUserTyping(c)

SpecTyping == InitTyping /\ [][NextTyping]_vars

\* ------------------------------------------------------------- C15 and C16
\* The timestamps client c holds for peer p in its typing set.
TypingSince(c, p) ==
  { typingUsers[c][k].timestamp :
      k \in { j \in DOMAIN typingUsers[c] : typingUsers[c][j].userId = p } }

\* C15: a typing signal of P handled at time T puts P in the typing set with
\* timestamp T; P leaves the set only at T + 3 s or later, has left it after
\* any sweep that runs at T + 3 s or later, and so is gone by T + 4 s.
C15_TypingExpires ==
  /\ [](\A c \in ChatConn : \A p \in ChatConn : \A T \in TypingSince(c, p) :
          now - T < TypingTtl + SweepPeriod)
  /\ [][ \A c \in ChatConn : \A p \in ChatConn :
           /\ (inbox[c] # <<>> /\ inbox'[c] = Tail(inbox[c])
                 /\ Head(inbox[c]).type = "user-typing"
                 /\ Head(inbox[c]).userId = p /\ p # userId[c]
                 /\ Head(inbox[c]).roomId = selectedRoom[c])
                => TypingSince(c, p)' = {now}
           /\ \A T \in TypingSince(c, p) :
                /\ (TypingSince(c, p)' = {}) => now - T >= TypingTtl
                /\ (sweepAt'[c] # sweepAt[c] /\ now - T >= TypingTtl)
                     => TypingSince(c, p)' = {} ]_vars

\* B, handed A's typing signal, has swept A out of its typing set.
C15_Witness ==
  /\ \E h \in seen["B"] : h.type = "user-typing" /\ h.from = "A"
  /\ TypingSince("B", "A") = {}
  /\ now >= TypingTtl

\* C16: two user-typing events of one client are at least 3 s apart, whatever
\* the keystrokes and their timing.
C16_OneTypingEventPerWindow ==
  \A c \in ChatConn : \A t1 \in typedAt[c] : \A t2 \in typedAt[c] :
    t1 < t2 => t2 - t1 >= TypingPause

\* A has emitted user-typing twice, and one of its keystrokes emitted nothing.
C16_Witness ==
  /\ Cardinality(typedAt["A"]) = 2
  /\ userOps["A"].type > 2

\* ------------------------------------------------------- a tampered file
OtherFile == << 101 >>

\* What the media of a send-message event can be changed into on its way to
\* the relay, which forwards data.media as it comes: another declared hash, or
\* another payload encrypted the same way.
Tampered(data, to) ==
  { [data EXCEPT !.media.hash = calculateHash(OtherFile)],
    [data EXCEPT !.media.encryptedData = encryptMedia(OtherFile, to)] }

TamperMedia(c) ==
  /\ toServer[c] # <<>>
  /\ Head(toServer[c]).type = "send-message"
  /\ Head(toServer[c]).media.has
  /\ \E to \in ChatConn \ {c} : \E data \in Tampered(Head(toServer[c]), to) :
       /\ data # Head(toServer[c])
       /\ toServer' = [toServer EXCEPT ![c] = << data >> \o Tail(@)]
  /\ UNCHANGED << connected, rooms, inbox, chatVars, cryptoVars, histVars, trip,
                  typingVars, apiVars >>

\* The room of InitChat, with the media of B's messages open to tampering.
InitTamper == InitChat

NextTamper ==
  \/ \E c \in ChatConn : handleKeyExchange(c)
  \/ \E c \in ChatConn : \E task \in running[c] : ImportKeyDone(c, task)
  \/ \E c \in ChatConn : \E task \in running[c] : ExportKeyDone(c, task)
  \/ \E c \in ChatConn : \E text \in SendTexts : \E file \in MediaFiles \cup {NoFile} :
       handleSendMessage(c, text, file, FreshIv(userOps[c].send))
  \/ \E c \in ChatConn : \E task \in running[c] : MediaReady(c, task, FreshIv(task.n))
  \/ \E c \in ChatConn : \E task \in running[c] : SendEncryptDone(c, task)
  \/ \E c \in ChatConn : TamperMedia(c)
  \/ \E c \in ChatConn : ServerHandle(c)
  \/ \E c \in ChatConn : handleReceiveMessage(c)
  \/ \E c \in ChatConn : \E task \in running[c] : ReceiveDecryptDone(c, task)
  \/ \E c \in ChatConn : \E task \in running[c] : ReceiveHashDone(c, task)
  \/ \E c \in ChatConn : handleMessageRead(c)

SpecTamper == InitTamper /\ [][NextTamper]_vars

\* Handlers of c that have decrypted text and media and await calculateHash.
Hashing(c) == { task \in running[c] : task.kind = "receive" /\ task.pc = "hash" }

\* C17: when a received message's media decrypts but its recomputed hash is not
\* the declared one, the handler still appends the message, once, with the
\* decrypted text and isDecrypted true, and the attachment it carries is the
\* decrypted media marked verified = false; verified is true exactly when the
\* hashes agree.
C17_HashMismatchShownUnverified ==
  /\ [][ \A c \in ChatConn : \A task \in Hashing(c) : task \notin running'[c] =>
           /\ Len(messages'[c]) = Len(messages[c]) + 1
           /\ SubSeq(messages'[c], 1, Len(messages[c])) = messages[c]
           /\ LET msg == messages'[c][Len(messages'[c])]
              IN /\ msg.id = task.ev.id
                 /\ msg.isDecrypted
                 /\ msg.text = task.out.val
                 /\ msg.media.has
                 /\ msg.media.data = task.text
                 /\ msg.media.verified
                      = (calculateHash(task.text) = task.ev.media.hash) ]_vars
  /\ [](\A c \in ChatConn : \A i \in DOMAIN messages[c] :
          LET msg == messages[c][i]
          IN (msg.media.has /\ msg.sender # userId[c]
                /\ calculateHash(msg.media.data) # msg.media.hash)
               => msg.isDecrypted /\ msg.text \in SendTexts /\ ~msg.media.verified)

\* A shows a message of B, its text decrypted, whose attachment's hash is not
\* the declared one and is marked unverified.
C17_Witness ==
  \E i \in DOMAIN messages["A"] :
    LET msg == messages["A"][i]
    IN /\ msg.sender = "B"
       /\ msg.media.has
       /\ calculateHash(msg.media.data) # msg.media.hash
       /\ msg.isDecrypted /\ msg.text \in SendTexts
       /\ ~msg.media.verified

\* ------------------------------------------------------- media round trip
\* Data URLs (FileReader.readAsDataURL): ASCII strings, here over "/" and "d".
FileChars == { 47, 100 }
MediaPayloads == UNION { [1..n -> FileChars] : n \in 1..MaxTextLen }

MediaRoundTrip ==
  \A A \in Conn : \A B \in Conn : \A M \in MediaPayloads \cup MediaFiles :
    /\ decryptMedia(encryptMedia(M, B), A) = Ok(M)
    /\ mediaVerified(decryptMedia(encryptMedia(M, B), A).val, calculateHash(M))

\* C18: for every sender A, recipient B and payload M, decryptMedia of
\* encryptMedia(M, B) with A's id returns M, whose hash is the declared one;
\* and every attachment a client shows of a message another client sent
\* carries the payload sent, with the declared hash, verified = true.
C18_MediaRoundTripVerified ==
  /\ MediaRoundTrip
  /\ \A c \in ChatConn : \A i \in DOMAIN messages[c] :
       LET msg == messages[c][i]
       IN (msg.media.has /\ msg.sender # userId[c]) =>
            /\ msg.media.data \in MediaFiles
            /\ msg.media.hash = calculateHash(msg.media.data)
            /\ msg.media.verified

\* A shows a decrypted message of B whose attachment is the file sent, verified.
C18_Witness ==
  \E i \in DOMAIN messages["A"] :
    LET msg == messages["A"][i]
    IN /\ msg.sender = "B"
       /\ msg.isDecrypted
       /\ msg.media.has
       /\ msg.media.data \in MediaFiles
       /\ msg.media.verified

\* ------------------------------------------------------------ joining again
\* The step is the server handling a join-room of socket c for a room c is in.
Rejoins(c) ==
  /\ ServerHandled(c)
  /\ Head(toServer[c]).type = "join-room"
  /\ c \in rooms[Head(toServer[c]).roomId]

\* C19 as stated: a join-room of a socket that is already in the room leaves
\* the membership of every room as it is and puts nothing in the stream of any
\* other socket: the members were told user-connected at the first join only.
C19_JoinIdempotent ==
  [][ \A c \in Conn : Rejoins(c) =>
        /\ rooms' = rooms
        /\ \A d \in Conn \ {c} : inbox'[d] = inbox[d] ]_vars

\* ------------------------------------------------------------- tombstones
\* The room of InQuiet, where the members delete, and A and B edit, the entries
\* they hold of A's two messages, and are handed what the relay makes of it.
NextDelete ==
  \/ \E c \in Conn : \E i \in 1..MaxSends : handleDeleteMessage(c, i)
  \/ \E c \in ChatConn : \E i \in 1..MaxSends : handleEditMessage(c, i)
  \/ \E c \in ChatConn : \E text \in EditTexts :
       saveEditedMessage(c, text, FreshIv(userOps[c].edit))
  \/ \E c \in ChatConn : \E task \in running[c] : SaveEncryptDone(c, task)
  \/ \E c \in Conn : ServerHandle(c)
  \/ \E c \in Conn : handleMessageDelete(c)
  \/ \E c \in Conn : handleMessageEdit(c)
  \/ \E c \in Conn : \E task \in running[c] : EditDecryptDone(c, task)

SpecDelete == InQuiet /\ [][NextDelete]_vars

\* The list with isDeleted set on the entries with this id and nothing else
\* changed.
Tombstoned(list, id) ==
  [ i \in DOMAIN list |-> IF list[i].id = id THEN [list[i] EXCEPT !.isDeleted = TRUE]
                          ELSE list[i] ]

\* The step is c's own delete, and the step is c handling a relayed delete.
DeletesLocally(c) == userOps'[c].delete # userOps[c].delete
DeletesRelayed(c) ==
  /\ inbox[c] # <<>>
  /\ Head(inbox[c]).type = "message-delete"
  /\ inbox'[c] = Tail(inbox[c])

\* C20: no step shortens a client's list or changes the id at a position, and
\* an entry that is deleted stays deleted; a local delete and a relayed delete
\* set isDeleted on the entries with the id they name and change nothing else
\* in the list.
C20_DeletedEntriesStay ==
  [][ \A c \in Conn :
        /\ Len(messages'[c]) >= Len(messages[c])
        /\ \A i \in DOMAIN messages[c] :
             /\ messages'[c][i].id = messages[c][i].id
             /\ messages[c][i].isDeleted => messages'[c][i].isDeleted
        /\ DeletesLocally(c) =>
             messages'[c] = Tombstoned(messages[c], toServer'[c][Len(toServer'[c])].id)
        /\ DeletesRelayed(c) =>
             messages'[c] = Tombstoned(messages[c], Head(inbox[c]).id) ]_vars

\* B deleted its entry of a message of A and C, handed the relayed delete,
\* holds the entry with that id as deleted; both lists still have two entries.
C20_Witness ==
  \E i \in DOMAIN messages["B"] : \E j \in DOMAIN messages["C"] :
    /\ messages["B"][i].isDeleted
    /\ messages["C"][j].id = messages["B"][i].id
    /\ messages["C"][j].isDeleted
    /\ \E h \in seen["C"] : h.type = "message-delete" /\ h.id = messages["C"][j].id
    /\ Len(messages["B"]) = MaxSends /\ Len(messages["C"]) = MaxSends

\* ------------------------------------------------------ one key pair only
\* The exchange-keys events of client c that are on their way or were delivered.
KeysSentBy(c) ==
  { toServer[c][i].publicKey : i \in { j \in DOMAIN toServer[c] :
                                         toServer[c][j].type = "exchange-keys" } }
  \cup UNION { { inbox[d][i].publicKey : i \in { j \in DOMAIN inbox[d] :
                   /\ inbox[d][j].type = "exchange-keys"
                   /\ inbox[d][j].g.from = c } } : d \in Conn }

\* C21 as stated: once a client has a key pair no step replaces it, and every
\* public key the client has sent is the public half of the key pair it holds.
C21_KeyPairGeneratedOnce ==
  /\ [][ \A c \in Conn : keyPair[c] # 0 => keyPair'[c] = keyPair[c] ]_vars
  /\ [](\A c \in Conn : \A key \in KeysSentBy(c) :
          key = PublicKeyString(c, keyPair[c]))

\* ------------------------------------------------------------ rate limiting
\* for (const [key, value] of requests.entries())
\*   if (value.reset < windowStart) requests.delete(key)
cleanUp(map, windowStart) ==
  [ key \in Ips |-> IF map[key] # NoEntry /\ map[key].reset < windowStart
                    THEN NoEntry ELSE map[key] ]

\* if (current.count >= maxRequests), and a limit that lets one more through.
exhaustedLate(current) == current.count > maxRequests
exhausted(current) == current.count >= maxRequests

\* rateLimit(request) for a request of client ip at the time now: the result
\* and the map after the call.
rateLimit(map, ip, t) ==
  LET cleaned == cleanUp(map, t - windowMs)
      current == cleaned[ip]
      fresh == [count |-> 1, reset |-> t + windowMs]
  IN IF current = NoEntry \/ current.reset < t
     THEN [map |-> [cleaned EXCEPT ![ip] = fresh],
           result |-> [ip |-> ip, success |-> TRUE, limit |-> maxRequests,
                       remaining |-> maxRequests - 1, reset |-> t + windowMs]]
     ELSE IF exhausted(current)
     THEN [map |-> cleaned,
           result |-> [ip |-> ip, success |-> FALSE, limit |-> maxRequests,
                       remaining |-> 0, reset |-> current.reset]]
     ELSE [map |-> [cleaned EXCEPT ![ip].count = @ + 1],
           result |-> [ip |-> ip, success |-> TRUE, limit |-> maxRequests,
                       remaining |-> maxRequests - (current.count + 1),
                       reset |-> current.reset]]

\* A request of client ip reaches an endpoint, which calls rateLimit.
Limit(ip) ==
  /\ LET out == rateLimit(requests, ip, apiNow)
     IN /\ requests' = out.map
        /\ rateResult' = out.result
        /\ admitted' = IF out.result.success
                       THEN [admitted EXCEPT ![ip] = Append(@, apiNow)]
                       ELSE admitted
  /\ UNCHANGED << netVars, chatVars, cryptoVars, histVars, trip, typingVars, apiNow,
                  issued, authResult, table, calls, replies >>

\* The admissions that lie less than a window before the time t.
Recent(times, t) == SelectSeq(times, LAMBDA x : t - x < windowMs)

\* Date.now() moves on.
ApiTick ==
  /\ apiNow < MaxApiTime
  /\ apiNow' = apiNow + 1
  /\ admitted' = [ip \in Ips |-> Recent(admitted[ip], apiNow + 1)]
  /\ UNCHANGED << netVars, chatVars, cryptoVars, histVars, trip, typingVars, requests,
                  rateResult, issued, authResult, table, calls, replies >>

NextLimit ==
  \/ \E ip \in Ips : Limit(ip)
  \/ ApiTick

SpecLimit == InitState /\ [][NextLimit]_vars

\* The window of client ip is open: it has an entry whose reset is not past.
InWindow(ip) == requests[ip] # NoEntry /\ ~(requests[ip].reset < apiNow)

\* The step is a rateLimit call for client ip.
Limited(ip) ==
  /\ apiNow' = apiNow
  /\ rateResult'.ip = ip
  /\ << requests, rateResult, admitted >>' # << requests, rateResult, admitted >>

\* C22: a call outside an open window succeeds, opens a window and leaves
\* maxRequests - 1; in an open window each call below maxRequests succeeds and
\* leaves one less, down to 0, and every call from then on fails with remaining
\* 0 and changes nothing; the stored count never exceeds maxRequests.
C22_WindowAdmitsMaxRequests ==
  /\ [](\A ip \in Ips : requests[ip].count <= maxRequests)
  /\ [](rateResult.remaining >= 0)
  /\ [][ \A ip \in Ips : Limited(ip) =>
           IF ~InWindow(ip)
           THEN /\ rateResult'.success /\ rateResult'.remaining = maxRequests - 1
                /\ requests'[ip] = [count |-> 1, reset |-> apiNow + windowMs]
           ELSE IF requests[ip].count < maxRequests
           THEN /\ rateResult'.success
                /\ rateResult'.remaining = maxRequests - requests[ip].count - 1
                /\ requests'[ip] = [requests[ip] EXCEPT !.count = @ + 1]
           ELSE /\ ~rateResult'.success /\ rateResult'.remaining = 0
                /\ requests'[ip] = requests[ip] ]_vars

\* Client ip1 has used up its window and a further call of it was refused.
C22_Witness ==
  /\ rateResult.ip = "ip1" /\ ~rateResult.success
  /\ rateResult.remaining = 0
  /\ requests["ip1"].count = maxRequests
  /\ InWindow("ip1")

\* C23 as stated: in any interval of one window's length, aligned with a
\* window start or not, rateLimit admits at most maxRequests requests of one
\* client: at every time, the admissions of the window's length that ends now
\* number at most maxRequests.
C23_AnyIntervalAdmitsMaxRequests ==
  \A ip \in Ips : Len(Recent(admitted[ip], apiNow)) <= maxRequests

\* ------------------------------------------------------------------- tokens
\* JSON.stringify of a string: quoted, with " and \ escaped by a backslash;
\* and a stringify that does not escape.
RECURSIVE JsonEscape(_)
JsonEscape(str) ==
  IF Len(str) = 0 THEN <<>>
  ELSE (IF str[1] \in {34, 92} THEN << 92, str[1] >> ELSE << str[1] >>)
       \o JsonEscape(Tail(str))

JsonStringRaw(str) == << 34 >> \o str \o << 34 >>
JsonString(str) == << 34 >> \o JsonEscape(str) \o << 34 >>

\* JSON.stringify of a number: its decimal digits.
RECURSIVE Digits(_)
Digits(n) == IF n < 10 THEN << 48 + n >> ELSE Digits(n \div 10) \o << 48 + (n % 10) >>

\* JSON.stringify(payload), the member names (fixed text) left out:
\* {userId,walletAddress,iat,exp}
JsonStringify(payload) ==
  << 123 >> \o JsonString(payload.userId) \o << 44 >>
  \o JsonString(payload.walletAddress) \o << 44 >>
  \o Digits(payload.iat) \o << 44 >> \o Digits(payload.exp) \o << 125 >>

\* JSON.parse of a string literal whose opening quote is before position i:
\* the characters up to the closing quote and the position after it.
RECURSIVE ReadChars(_, _)
ReadChars(text, i) ==
  IF i > Len(text) THEN [ok |-> FALSE, val |-> <<>>, next |-> i]
  ELSE IF text[i] = 34 THEN [ok |-> TRUE, val |-> <<>>, next |-> i + 1]
  ELSE IF text[i] = 92
  THEN IF i + 1 > Len(text) \/ text[i + 1] \notin {34, 92}
       THEN [ok |-> FALSE, val |-> <<>>, next |-> i]
       ELSE LET rest == ReadChars(text, i + 2)
            IN [rest EXCEPT !.val = << text[i + 1] >> \o @]
  ELSE LET rest == ReadChars(text, i + 1)
       IN [rest EXCEPT !.val = << text[i] >> \o @]

ReadString(text, i) ==
  IF i > Len(text) \/ text[i] # 34 THEN [ok |-> FALSE, val |-> <<>>, next |-> i]
  ELSE ReadChars(text, i + 1)

\* JSON.parse of a number at position i: the value and the position after it.
RECURSIVE ReadDigits(_, _, _)
ReadDigits(text, i, acc) ==
  IF i <= Len(text) /\ text[i] \in 48..57
  THEN ReadDigits(text, i + 1, [ok |-> TRUE, val |-> acc.val * 10 + (text[i] - 48),
                                next |-> i + 1])
  ELSE acc

ReadNumber(text, i) == ReadDigits(text, i, [ok |-> FALSE, val |-> 0, next |-> i])

Is(text, i, ch) == i <= Len(text) /\ text[i] = ch

\* JSON.parse(decoded): the payload, or a SyntaxError.
JsonParse(text) ==
  LET user == ReadString(text, 2)
      wallet == ReadString(text, user.next + 1)
      iat == ReadNumber(text, wallet.next + 1)
      exp == ReadNumber(text, iat.next + 1)
  IN IF /\ Is(text, 1, 123)
        /\ user.ok /\ Is(text, user.next, 44)
        /\ wallet.ok /\ Is(text, wallet.next, 44)
        /\ iat.ok /\ Is(text, iat.next, 44)
        /\ exp.ok /\ Is(text, exp.next, 125)
        /\ exp.next = Len(text)
     THEN Ok([userId |-> user.val, walletAddress |-> wallet.val, iat |-> iat.val,
              exp |-> exp.val])
     ELSE Err

\* generateJWT(userId, walletAddress) at the time t:
\* Buffer.from(JSON.stringify(payload)).toString('base64')
generateJWT(user, walletAddress, t) ==
  Btoa(TextEncode(JsonStringify([userId |-> user, walletAddress |-> walletAddress,
                                 iat |-> t, exp |-> t + TokenLife])))

\* request.headers.get('authorization'): a string or null.
NoHeader == [present |-> FALSE, value |-> <<>>]
Bearer == << 66, 101, 97, 114, 101, 114, 32 >>     \* 'Bearer '
BearerHeader(token) == [present |-> TRUE, value |-> Bearer \o token]

Failure(error) == [NoAuth EXCEPT !.error = error]

\* verifyJWT(request) at the time t
verifyJWT(authHeader, t) ==
  IF \/ ~authHeader.present \/ authHeader.value = <<>>
     \/ Len(authHeader.value) < Len(Bearer)
     \/ SubSeq(authHeader.value, 1, Len(Bearer)) # Bearer
  THEN Failure("No authorization header")
  ELSE LET token == SubSeq(authHeader.value, Len(Bearer) + 1, Len(authHeader.value))
           bytes == Atob(token)
           payload == IF bytes.ok THEN JsonParse(TextDecode(bytes.val)) ELSE Err
       IN IF token = <<>> THEN Failure("No token provided")
          ELSE IF ~payload.ok THEN Failure("Invalid token format")
          ELSE IF payload.val.exp < t THEN Failure("Token expired")
          ELSE IF payload.val.userId = <<>> \/ payload.val.walletAddress = <<>>
          THEN Failure("Invalid token payload")
          ELSE [success |-> TRUE, userId |-> payload.val.userId,
                walletAddress |-> payload.val.walletAddress, error |-> Null]

\* User ids and wallet addresses: strings over a, " and \.
NameChars == { 97, 34, 92 }
Names == UNION { [1..n -> NameChars] : n \in 0..MaxTextLen }

\* POST /api/auth/wallet answers with generateJWT(user.id, walletAddress); one
\* login is followed.
Issue(user, walletAddress) ==
  /\ issued = {}
  /\ issued' = {[userId |-> user, walletAddress |-> walletAddress,
                 exp |-> apiNow + TokenLife,
                 token |-> generateJWT(user, walletAddress, apiNow)]}
  /\ UNCHANGED << netVars, chatVars, cryptoVars, histVars, trip, typingVars, requests,
                  apiNow, rateResult, admitted, authResult, table, calls, replies >>

\* A request bearing the token issued, a request without the header and a
\* request with a token that is no base64 of a payload reach verifyJWT.
Verify(sent, authHeader) ==
  /\ authResult' = [result |-> verifyJWT(authHeader, apiNow), sent |-> sent,
                    at |-> apiNow]
  /\ UNCHANGED << netVars, chatVars, cryptoVars, histVars, trip, typingVars, requests,
                  apiNow, rateResult, admitted, issued, table, calls, replies >>

NextJwt ==
  \/ \E user \in Names : \E walletAddress \in Names : Issue(user, walletAddress)
  \/ \E tok \in issued : Verify("issued", BearerHeader(tok.token))
  \/ Verify("nothing", NoHeader)
  \/ Verify("invalid", BearerHeader(Btoa(<< 97 >>)))
  \/ ApiTick

SpecJwt == InitState /\ [][NextJwt]_vars

\* What verifyJWT is to answer for the token issued, by the claim.
AnswersIssued(tok) ==
  IF tok.exp < authResult.at
  THEN ~authResult.result.success /\ authResult.result.error = "Token expired"
  ELSE /\ authResult.result.success
       /\ authResult.result.userId = tok.userId
       /\ authResult.result.walletAddress = tok.walletAddress

AnswersNoHeader ==
  authResult.sent = "nothing" =>
    ~authResult.result.success /\ authResult.result.error = "No authorization header"

\* C24 as stated: for every userId and walletAddress, verifyJWT on the token
\* generateJWT made of them returns them until the token's exp is past and
\* 'Token expired' from then on; without the header it fails with
\* 'No authorization header'.
C24_TokenVerifiesUntilExpiry ==
  /\ authResult.sent = "issued" => \A tok \in issued : AnswersIssued(tok)
  /\ AnswersNoHeader

\* C24 amended: the same for every userId and walletAddress that is not the
\* empty string.
C24_NonEmptyTokenVerifiesUntilExpiry ==
  /\ authResult.sent = "issued" =>
       \A tok \in issued : (tok.userId # <<>> /\ tok.walletAddress # <<>>) =>
                              AnswersIssued(tok)
  /\ AnswersNoHeader

\* A token for names with a quote and a backslash in them was verified at the
\* last moment of its life and returned them.
C24_Witness ==
  /\ authResult.sent = "issued"
  /\ authResult.result.success
  /\ \E tok \in issued :
       /\ authResult.at = tok.exp
       /\ authResult.result.userId = tok.userId
       /\ authResult.result.walletAddress = tok.walletAddress
       /\ tok.userId = << 34, 92 >>

\* ------------------------------------------------- PUT and DELETE of a message
Contents == { "c1" }

\* .from('messages').select(...).eq('id', messageId).eq('sender_id', userId)
\*   .eq('is_deleted', false).single()
selectOwn(rows, messageId, user) ==
  /\ messageId \in DOMAIN rows
  /\ rows[messageId].sender_id = user
  /\ ~rows[messageId].is_deleted

\* .update({...}).eq('id', messageId), and an update that removes the row.
updateRow(rows, call) ==
  IF call.method = "PUT"
  THEN [rows EXCEPT ![call.id].encrypted_content = call.content, ![call.id].edited_at = Now]
  ELSE [rows EXCEPT ![call.id].is_deleted = TRUE]

\* A request of an authenticated user (rateLimit and verifyJWT passed) is
\* taken on: the handler goes on to its select.
Request(method, user, messageId, content) ==
  /\ Cardinality(calls) < MaxCalls
  /\ calls' = calls \cup {[method |-> method, user |-> user, id |-> messageId,
                           content |-> content, pc |-> "select"]}
  /\ UNCHANGED << netVars, chatVars, cryptoVars, histVars, trip, typingVars, requests,
                  apiNow, rateResult, admitted, issued, authResult, table, replies >>

\* The select resolves: 404 without a row, else the handler goes on to update.
SelectDone(call) ==
  /\ call \in calls /\ call.pc = "select"
  /\ IF selectOwn(table, call.id, call.user)
     THEN /\ calls' = (calls \ {call}) \cup {[call EXCEPT !.pc = "update"]}
          /\ replies' = replies
     ELSE /\ calls' = calls \ {call}
          /\ replies' = {[call EXCEPT !.pc = "404"]}
  /\ UNCHANGED << netVars, chatVars, cryptoVars, histVars, trip, typingVars, requests,
                  apiNow, rateResult, admitted, issued, authResult, table >>

\* The update resolves: the handler answers success.
UpdateDone(call) ==
  /\ call \in calls /\ call.pc = "update"
  /\ table' = updateRow(table, call)
  /\ calls' = calls \ {call}
  /\ replies' = {[call EXCEPT !.pc = "200"]}
  /\ UNCHANGED << netVars, chatVars, cryptoVars, histVars, trip, typingVars, requests,
                  apiNow, rateResult, admitted, issued, authResult >>

NextApi ==
  \/ \E user \in Users : \E id \in MsgIds \cup {"m0"} : \E content \in Contents :
       Request("PUT", user, id, content)
  \/ \E user \in Users : \E id \in MsgIds \cup {"m0"} : Request("DELETE", user, id, "c0")
  \/ \E call \in calls : SelectDone(call)
  \/ \E call \in calls : UpdateDone(call)

SpecApi == InitState /\ [][NextApi]_vars

\* C25 as stated: a step changes a stored message only as the update of a PUT
\* or DELETE whose user is the message's sender, and only when the message is
\* not deleted; a PUT replaces encrypted_content and sets edited_at, a DELETE
\* sets is_deleted and keeps the row; a handler that finds the message absent,
\* of another sender or deleted answers 404 and changes nothing.
C25_OnlySenderChangesLiveMessage ==
  [][ /\ DOMAIN table' = DOMAIN table
      /\ \A id \in MsgIds : table'[id] # table[id] =>
           \E call \in calls :
             /\ call.id = id /\ call.pc = "update" /\ call \notin calls'
             /\ table[id].sender_id = call.user
             /\ ~table[id].is_deleted
             /\ table'[id] =
                  IF call.method = "PUT"
                  THEN [table[id] EXCEPT !.encrypted_content = call.content,
                                         !.edited_at = Now]
                  ELSE [table[id] EXCEPT !.is_deleted = TRUE]
      /\ \A call \in calls :
           (call.pc = "select" /\ call \notin calls'
              /\ ~selectOwn(table, call.id, call.user)) =>
             /\ table' = table
             /\ [call EXCEPT !.pc = "404"] \in replies' ]_vars

\* ------------------------------------------------ the id of a sent message
\* C26 as stated: the send-message event a client emits for a message carries
\* the id of the entry the client appended to its own list for that message.
C26_OptimisticIdIsWireId ==
  \A c \in ChatConn : \A i \in DOMAIN toServer[c] :
    toServer[c][i].type = "send-message" =>
      \E j \in DOMAIN messages[c] :
        /\ messages[c][j].sender = userId[c]
        /\ messages[c][j].n = toServer[c][i].g.n
        /\ messages[c][j].id = toServer[c][i].id

\* ------------------------------------------------ whose key a peer stores
\* A connected socket emits exchange-keys with a payload of its choosing: the
\* userId field is a string the sender writes, the key is the sender's own.
EmitKey(c, named, to) ==
  /\ c \in connected
  /\ nextSeq <= MaxEvents
  /\ toServer' = [toServer EXCEPT ![c] =
        Sent(c, [Event0 EXCEPT !.type = "exchange-keys", !.userId = named,
                               !.publicKey = PublicKeyString(c, keyPair[c]),
                               !.recipientId = to], 0)]
  /\ nextSeq' = nextSeq + 1
  /\ UNCHANGED << connected, rooms, inbox, chatVars, cryptoVars, keySent,
                  seen, userOps, trip, typingVars, apiVars >>

NextSpoof ==
  \/ \E c \in Conn : \E named \in Conn : \E to \in Conn \ {c} : EmitKey(c, named, to)
  \/ \E c \in Conn : ServerHandle(c)
  \/ \E c \in Conn : handleKeyExchange(c)
  \/ \E c \in Conn : \E task \in running[c] : ImportKeyDone(c, task)

SpecSpoof == InQuiet /\ [][NextSpoof]_vars

\* C27 as stated: whenever a client stores a public key under a peer X, the
\* exchange-keys event it stores it from was sent by the connection X.
C27_StoredKeySentByOwner ==
  [][ \A c \in Conn : \A x \in Conn :
        peerPublicKeys'[c][x] # peerPublicKeys[c][x] =>
          \E task \in running[c] :
            /\ task.pc = "importKey" /\ task \notin running'[c]
            /\ task.ev.userId = x
            /\ task.ev.g.from = x ]_vars


\* ------------------------------------------------ who may publish to a room
\* C28 as stated: when the server handles a room-scoped event of a socket that
\* is not joined to the room the event names, nothing is delivered to anyone.
C28_OnlyMembersPublish ==
  [][ \A c \in Conn :
        (/\ ServerHandled(c)
         /\ Head(toServer[c]).type \in RoomScoped
         /\ c \notin Members(Head(toServer[c]).roomId)) =>
          inbox' = inbox ]_vars


\* ------------------------------------------------ the room of a read receipt
\* A and B have joined r1 and hold each other's key; A has typed B's id as
\* the recipient. Either of them may go on to select a room.
InTwoRooms ==
  /\ connected = ChatConn
  /\ rooms = [r \in RoomId |-> IF r = "r1" THEN ChatConn
                               ELSE IF r \in ChatConn THEN {r} ELSE {}]
  /\ toServer = [c \in Conn |-> <<>>]
  /\ inbox = [c \in Conn |-> <<>>]
  /\ userId = [c \in Conn |-> IF c \in ChatConn THEN c ELSE Null]
  /\ currentRoom = [c \in Conn |-> IF c \in ChatConn THEN "r1" ELSE Null]
  /\ selectedRoom = currentRoom
  /\ recipientId = [c \in Conn |-> IF c = "A" THEN "B" ELSE Null]
  /\ messages = [c \in Conn |-> <<>>]
  /\ editingMessageId = [c \in Conn |-> 0]
  /\ running = [c \in Conn |-> {}]
  /\ keyPair = [c \in Conn |-> IF c \in ChatConn THEN 1 ELSE 0]
  /\ keyGens = keyPair
  /\ peerPublicKeys = [c \in Conn |-> [p \in Conn |->
        IF c # p /\ {c, p} = ChatConn THEN exportKey(p, 1) ELSE NoKey]]
  /\ keySent = [c \in Conn |-> [p \in Conn |-> 0]]
  /\ nextSeq = 1
  /\ seen = [c \in Conn |-> {}]
  /\ userOps = [c \in Conn |-> NoOps]
  /\ trip = NoTrip
  /\ NoTyping
  /\ NoApi

NextRooms ==
  \/ \E c \in ChatConn : \E r \in RoomNames : JoinRoom(c, r)
  \/ \E c \in ChatConn : ServerHandle(c)
  \/ \E c \in ChatConn : handleUserConnected(c)
  \/ \E c \in ChatConn : handleKeyExchange(c)
  \/ \E c \in ChatConn : \E task \in running[c] : ImportKeyDone(c, task)
  \/ \E c \in ChatConn : \E task \in running[c] : ExportKeyDone(c, task)
  \/ \E c \in ChatConn : \E text \in SendTexts :
       handleSendMessage(c, text, NoFile, FreshIv(userOps[c].send))
  \/ \E c \in ChatConn : \E task \in running[c] : SendEncryptDone(c, task)
  \/ \E c \in ChatConn : handleReceiveMessage(c)
  \/ \E c \in ChatConn : \E task \in running[c] : ReceiveDecryptDone(c, task)
  \/ \E c \in ChatConn : handleMessageRead(c)

SpecRooms == InTwoRooms /\ [][NextRooms]_vars

\* C29 as stated: the message-read event a client emits for a message it
\* received names the room into which that message was relayed.
C29_ReceiptGoesToMessageRoom ==
  [][ \A c \in ChatConn :
        (/\ Len(toServer'[c]) = Len(toServer[c]) + 1
         /\ toServer'[c][Len(toServer'[c])].type = "message-read") =>
          \E task \in running[c] :
            /\ task.kind = "receive" /\ task \notin running'[c]
            /\ task.ev.id = toServer'[c][Len(toServer'[c])].id
            /\ task.ev.g.room = toServer'[c][Len(toServer'[c])].roomId ]_vars


\* ------------------------------------------------ typing without a pause
\* A changes the input field before the timeout of its last change is due:
\* less than 3 s after that change, or with no change before it.
KeepsTyping(c) ==
  /\ ~(typingTimeout[c] # 0 /\ typingTimeout[c] = now)
  /\ handleInputChange(c)

NextCompose ==
  \/ Elapse
  \/ \E c \in ChatConn : Sweep(c)
  \/ \E c \in ChatConn : TypingTimeout(c)
  \/ KeepsTyping("A")
  \/ \E c \in ChatConn : ServerHandle(c)
  \/ \E c \in ChatConn : handleUserTyping(c)

SpecCompose == InitTyping /\ [][NextCompose]_vars

\* c changed its input less than 3 s ago, as it did since it began to type.
Composing(c) == isTyping[c] /\ typingTimeout[c] > now

\* C30 as stated: while A goes on composing, B, which views A's room and has
\* A in its typing set, keeps A in its typing set.
C30_TypingFlagStaysWhileComposing ==
  [][ (/\ Composing("A") /\ Composing("A")'
       /\ selectedRoom["B"] = selectedRoom["A"]
       /\ TypingSince("B", "A") # {}) =>
        TypingSince("B", "A")' # {} ]_vars


====
